---- MODULE Spec2Model ----
(***************************************************************************)
(* State-machine model of the annotation engine of v-draw (src/script.js): *)
(* the timestamp store and its lookup, the two stacked video surfaces, the  *)
(* pointer handlers of the video overlay, the content-preserving resize,    *)
(* the laser fade loop, the growing notebook surface with its page guides,  *)
(* and the save and restore of the session through localStorage.            *)
(*                                                                         *)
(* Time of the video player is counted in units of 1/Sec second.  Wall      *)
(* clock time (Date.now()) is counted in milliseconds.  A surface is a grid *)
(* of pixels; a pointer position is the pixel it falls in.                  *)
(***************************************************************************)
EXTENDS Integers, Sequences, FiniteSets, TLC

\* ---------------------------------------------------------------- bounds
MaxTime == 4          \* player times range over 0..MaxTime
MaxEntries == 3       \* entries the store may hold
MaxW == 2             \* widest surface, in pixels
MaxH == 1             \* highest surface, in pixels
MaxLoads == 1         \* image loads in flight
MaxRacing == 2        \* image loads in flight in the runs with racing loads
MaxAbsent == 2        \* members missing from a stored text written elsewhere
MaxStartWidth == 200  \* widest object a resize starts on in the media runs, in px
MaxTimers == 2        \* deferred clears in flight
MaxNow == 1           \* last value of the wall clock in the store runs
MaxStrokes == 2       \* laser strokes tracked at once
MaxPoints == 3        \* points of one laser stroke
MaxClock == 3500      \* last value of the wall clock in the laser runs, in ms
Quantum == 250        \* shortest time between two frames in the laser runs, in ms
Cell == 100           \* side of the cells the notebook bitmap is kept by, in px
MaxNbWidth == 190     \* widest notebook surface, in px
MaxNbHeight == 400    \* highest notebook surface, in px
MaxUploads == 2       \* files uploaded between two loads of the page
MaxPages == 2         \* pages of an uploaded PDF

\* ------------------------------------------------------ program constants
Sec == 2              \* the 1 second coalescing window, in player-time units
HoldMs == 500         \* delay before a laser stroke starts to fade
FadeMs == 2000        \* duration of the fade
ExpandThreshold == 100 \* checkAndExpand grows within this distance of an edge, in px
ResizeSlack == 10     \* handleResize ignores smaller differences, in px
DefaultA4WidthPercent == 95    \* AppState.a4WidthPercent
DefaultA4HeightPercent == 100  \* AppState.a4HeightPercent
DefaultMediaSize == 200  \* width: mediaData.width || 200
MinMediaWidth == 50     \* Math.max(50, ...)
ResizeSpan == 200       \* (deltaX + deltaY) / 200
DefaultBrushSize == 4          \* AppState.brushSize
DefaultFontSize == 24          \* AppState.fontSize

\* ----------------------------------------------------------------- state
VARIABLES
    player,               \* AppState.player is set
    playerReady,          \* onReady has fired for the player
    timeUpdateInterval,   \* YouTubeManager.timeUpdateInterval and what it runs
    timestampedDrawings,  \* AppState.timestampedDrawings
    currentTimestamp,     \* AppState.currentTimestamp
    currentDrawingState,  \* AppState.currentDrawingState
    canvas,               \* AppState.canvas: the persistent video surface
    ctx,                  \* AppState.ctx: its 2D context state
    overlayCanvas,        \* AppState.overlayCanvas: the transient surface
    overlayCtx,           \* AppState.overlayCtx
    isDrawing,            \* AppState.isDrawing
    drawingMode,          \* AppState.drawingMode
    currentTool,          \* AppState.currentTool
    startX,               \* AppState.startX
    startY,               \* AppState.startY
    pendingLoads,         \* Image objects whose onload has not run yet
    pendingClears,        \* setTimeout(clear, 100) callbacks of save not run yet
    pendingSaves,         \* setTimeout(saveData, 100) callbacks of stop not run yet
    laserStrokes,         \* AppState.laserStrokes
    laserAnimationId,     \* AppState.laserAnimationId
    currentLaserStroke,   \* AppState.currentLaserStroke
    rafPending,           \* animate callbacks queued by requestAnimationFrame
    localStorage,         \* the text stored under STORAGE_KEY
    now,                  \* Date.now()
    ev,                   \* the handler that ran last, with its inputs
    painted,              \* the last shape call issued on the persistent context
    infiniteCanvas,       \* AppState.infiniteCanvas: the notebook surface
    infiniteCtx,          \* AppState.infiniteCtx
    infiniteDrawing,      \* AppState.infiniteDrawing
    currentInfiniteLaserStroke, \* AppState.currentInfiniteLaserStroke
    infiniteLaserCanvas,  \* AppState.infiniteLaserCanvas: the notebook laser overlay
    infiniteLaserCtx,     \* AppState.infiniteLaserCtx
    innerWidth,           \* window.innerWidth, in px
    innerHeight,          \* window.innerHeight, in px
    currentColor,         \* AppState.currentColor
    brushSize,            \* AppState.brushSize
    fontSize,             \* AppState.fontSize
    fontFamily,           \* AppState.fontFamily
    infiniteHorizontal,   \* AppState.infiniteHorizontal
    a4WidthPercent,       \* AppState.a4WidthPercent
    a4HeightPercent,      \* AppState.a4HeightPercent
    youtubeUrl,           \* the value of the youtubeUrl input
    pendingRestores,      \* the setTimeout callbacks of restoreData not run yet
    timestampList,        \* the entries the timestampList container presents
    intervals,            \* the setInterval timers not cleared: id and callback
    playerState,          \* the state the player last reported to onStateChange
    mediaObjects,         \* MediaHandler.mediaObjects
    currentPDF,           \* AppState.currentPDF
    totalPages,           \* AppState.totalPages
    uploads,              \* the uploads whose reader, decoder or page is awaited
    uploadCount,          \* the files handed to handleFileUpload since the load
    notices,              \* the notifications of the upload step that ran last
    selectedMedia,        \* MediaHandler.selectedMedia: the id of the object
    isDragging,           \* MediaHandler.isDragging
    isResizing,           \* MediaHandler.isResizing
    dragStartPos,         \* MediaHandler.dragStartPos
    resizeStartPos,       \* MediaHandler.resizeStartPos
    resizeStartSize,      \* MediaHandler.resizeStartSize
    initialPinchDistance, \* MediaHandler.initialPinchDistance
    initialSize,          \* MediaHandler.initialSize
    resizeFrom,           \* history: for the mouse and for the fingers, the
                          \* object whose resize in progress they started
                          \* and the width it had then
    saveReturned,         \* what the last call of saveData() returned
    separatorLoop         \* the loop of drawPageSeparators() in progress

storeVars == <<timestampedDrawings, currentTimestamp, currentDrawingState,
              timestampList>>
surfVars == <<canvas, ctx, overlayCanvas, overlayCtx>>
drawVars == <<isDrawing, drawingMode, currentTool, startX, startY>>
asyncVars == <<pendingLoads, pendingClears, pendingSaves>>
laserVars == <<laserStrokes, laserAnimationId, currentLaserStroke, rafPending>>
playerVars == <<player, playerReady, timeUpdateInterval, intervals,
               playerState>>
nbVars == <<infiniteCanvas, infiniteCtx, infiniteDrawing,
            currentInfiniteLaserStroke, infiniteLaserCanvas, infiniteLaserCtx,
            innerWidth, innerHeight, pendingRestores>>
mediaVars == <<mediaObjects, currentPDF, totalPages, uploads, uploadCount,
              notices>>
mhVars == <<selectedMedia, isDragging, isResizing, dragStartPos, resizeStartPos,
           resizeStartSize, initialPinchDistance, initialSize, resizeFrom>>
callVars == <<saveReturned, separatorLoop>>
setVars == <<currentColor, brushSize, fontSize, fontFamily, infiniteHorizontal,
             a4WidthPercent, a4HeightPercent, youtubeUrl>>

vars == <<player, playerReady, timeUpdateInterval, timestampedDrawings,
          currentTimestamp, currentDrawingState, canvas, ctx, overlayCanvas,
          overlayCtx, isDrawing, drawingMode, currentTool, startX, startY,
          pendingLoads, pendingClears, pendingSaves, laserStrokes,
          laserAnimationId, currentLaserStroke, rafPending, localStorage, now,
          ev, painted, infiniteCanvas, infiniteCtx, infiniteDrawing,
          currentInfiniteLaserStroke, infiniteLaserCanvas, infiniteLaserCtx,
          innerWidth, innerHeight, currentColor, brushSize, fontSize,
          fontFamily, infiniteHorizontal, a4WidthPercent, a4HeightPercent,
          youtubeUrl, pendingRestores, timestampList, intervals,
          playerState, mediaObjects, currentPDF, totalPages, uploads,
          uploadCount, notices, selectedMedia, isDragging, isResizing,
          dragStartPos, resizeStartPos, resizeStartSize, initialPinchDistance,
          initialSize, resizeFrom, saveReturned, separatorLoop>>

\* ------------------------------------------------------- optional values
Null == <<>>
Some(x) == <<x>>
Val(o) == o[1]

\* ------------------------------------------------------ JavaScript values
\* The settings hold numbers until an input element assigns its value, which
\* is a string.  url is the bitmap a data URL string encodes.
NoUrl == [valid |-> FALSE, width |-> 0, height |-> 0]

JsNum(n) == [type |-> "number", num |-> n, str |-> "", bool |-> FALSE, url |-> NoUrl]
JsStr(s) == [type |-> "string", num |-> 0, str |-> s, bool |-> FALSE, url |-> NoUrl]
JsBool(b) == [type |-> "boolean", num |-> 0, str |-> "", bool |-> b, url |-> NoUrl]
JsUrl(u) == [type |-> "string", num |-> 0, str |-> "data:", bool |-> FALSE, url |-> u]
JsNull == [type |-> "null", num |-> 0, str |-> "", bool |-> FALSE, url |-> NoUrl]
\* data.key of a key the object does not have
JsUndefined == [JsNull EXCEPT !.type = "undefined"]

\* if (value): 0, the empty string, false and null are falsy
Truthy(v) ==
    CASE v.type = "number" -> v.num # 0
      [] v.type = "string" -> v.str # ""
      [] v.type = "boolean" -> v.bool
      [] OTHER -> FALSE

Abs(n) == IF n < 0 THEN -n ELSE n

Times == 0..MaxTime

\* --------------------------------------------------------------- surfaces
\* A pixel is "none" (transparent), "ink" (opaque paint), "preview" (the 0.7
\* alpha paint of a shape preview), "laser" (the 50% alpha paint of the laser)
\* or "faded" (opaque paint partly erased).
Coords(w, h) == (0..(w - 1)) \X (0..(h - 1))

BlankPx(w, h) == [c \in Coords(w, h) |-> "none"]

\* Assigning canvas.width / canvas.height: a new transparent bitmap.
NewBitmap(w, h) == [width |-> w, height |-> h, px |-> BlankPx(w, h)]

\* Assigning canvas.width also resets the context to its defaults.
DefaultCtx == [gco |-> "source-over", style |-> "opaque", pen |-> Null, path |-> {}]

IsBlank(c) == \A p \in DOMAIN c.px : c.px[p] = "none"

\* source-over compositing of one pixel
Over(src, dst) ==
    CASE src = "none" -> dst
      [] src = "ink" -> "ink"
      [] dst = "ink" -> "ink"
      [] OTHER -> src

\* destination-out compositing of one pixel
DestOut(src, dst) ==
    CASE src = "none" -> dst
      [] src = "ink" -> "none"
      [] dst = "none" -> "none"
      [] OTHER -> "faded"

Composite(gco, src, dst) ==
    IF gco = "destination-out" THEN DestOut(src, dst) ELSE Over(src, dst)

\* ctx.clearRect(0, 0, canvas.width, canvas.height)
ClearRect(c) == [c EXCEPT !.px = BlankPx(c.width, c.height)]

\* canvas.toDataURL(): the encoded bitmap; a surface without pixels encodes to
\* "data:,", which no Image can decode.
ToDataURL(c) ==
    [valid |-> (c.width > 0 /\ c.height > 0), width |-> c.width,
     height |-> c.height, px |-> c.px]

\* ctx.drawImage(img, 0, 0) with the context's composite operation
DrawImage(c, gco, img) ==
    [c EXCEPT !.px = [p \in DOMAIN c.px |->
        IF p \in DOMAIN img.px THEN Composite(gco, img.px[p], c.px[p])
        ELSE c.px[p]]]

\* ctx.getImageData(0,0,w,h) followed, after the resize, by putImageData(.,0,0)
PutImageData(c, data) ==
    [c EXCEPT !.px = [p \in DOMAIN c.px |->
        IF p \in DOMAIN data.px THEN data.px[p] ELSE c.px[p]]]

\* The paint a stroke lays down with the context's stroke style.
StrokeInk(style, alpha) ==
    IF alpha = "preview" THEN "preview"
    ELSE IF style = "laser" THEN "laser" ELSE "ink"

\* Painting a set of pixels with the context's composite operation
Paint(c, gco, ink, pix) ==
    [c EXCEPT !.px = [p \in DOMAIN c.px |->
        IF p \in pix THEN Composite(gco, ink, c.px[p]) ELSE c.px[p]]]

\* ------------------------------------------------------------- geometry
Min(a, b) == IF a < b THEN a ELSE b
Max(a, b) == IF a > b THEN a ELSE b

Box(p, q) ==
    (Min(p[1], q[1])..Max(p[1], q[1])) \X (Min(p[2], q[2])..Max(p[2], q[2]))

\* pixels of the straight segment p -> q
Seg(p, q) ==
    {r \in Box(p, q) :
        (q[1] - p[1]) * (r[2] - p[2]) = (q[2] - p[2]) * (r[1] - p[1])}

\* pixels of strokeRect(x, y, w, h): the outline of the box spanning both corners
RectOutline(x, y, w, h) ==
    LET p == <<x, y>>
        q == <<x + w, y + h>>
    IN {r \in Box(p, q) : r[1] \in {p[1], q[1]} \/ r[2] \in {p[2], q[2]}}

\* pixels of arc(x, y, radius, 0, 2*PI) where radius is the distance p -> q:
\* those a surface can hold, and q itself
CirclePix(p, q) ==
    LET r2 == (q[1] - p[1]) * (q[1] - p[1]) + (q[2] - p[2]) * (q[2] - p[2])
    IN {r \in Coords(MaxW + 2, MaxH + 2) \cup {q} :
          (r[1] - p[1]) * (r[1] - p[1]) + (r[2] - p[2]) * (r[2] - p[2]) = r2}

\* pixels of the shape the tool draws from p to q; the arrow head (15 to 20px)
\* stays within the pixel of q
ShapePix(tool, p, q) ==
    CASE tool = "rectangle" -> RectOutline(p[1], p[2], q[1] - p[1], q[2] - p[2])
      [] tool = "circle" -> CirclePix(p, q)
      [] tool \in {"line", "arrow"} -> Seg(p, q)
      [] OTHER -> {}

ShapeTools == {"line", "rectangle", "circle", "arrow"}
Tools == {"pencil", "line", "rectangle", "circle", "arrow", "eraser", "text",
          "select", "laser"}

\* ------------------------------------------------------ history records
\* ev names the handler that ran last: op is the handler, a and b its numeric
\* inputs or results, k a qualifier.
Ev(op, a, b, k) == [op |-> op, a |-> a, b |-> b, k |-> k]

\* ------------------------------------------------------- the notebook surface
\* Lengths of the notebook are in px.  The bitmap of the notebook is kept by
\* cells of Cell x Cell px: px is the ink of a cell, guides the cells in which
\* a boundary guide is intact.
CellsOf(n) == (n + Cell - 1) \div Cell

CellOf(p) == <<p[1] \div Cell, p[2] \div Cell>>

\* Assigning infiniteCanvas.width / height: a new transparent bitmap
NbBitmap(w, h) ==
    [width |-> w, height |-> h, px |-> BlankPx(CellsOf(w), CellsOf(h)),
     guides |-> {}]

\* The laser overlay created over the notebook: a plain transparent bitmap
LaserBitmap(w, h) ==
    [width |-> w, height |-> h, px |-> BlankPx(CellsOf(w), CellsOf(h))]

\* infiniteLaserCtx.clearRect(0, 0, width, height)
LaserClearRect(c) ==
    [c EXCEPT !.px = BlankPx(CellsOf(c.width), CellsOf(c.height))]

\* infiniteCtx.clearRect(0, 0, width, height)
NbClearRect(c) ==
    [c EXCEPT !.px = BlankPx(CellsOf(c.width), CellsOf(c.height)),
              !.guides = {}]

\* getImageData(0, 0, w, h) before the size is assigned, putImageData(., 0, 0)
\* after it
NbPutImageData(c, data) ==
    [c EXCEPT !.px = [p \in DOMAIN c.px |->
                        IF p \in DOMAIN data.px THEN data.px[p] ELSE c.px[p]],
              !.guides = data.guides \cap DOMAIN c.px]

\* Stroking a set of cells: ink is laid down or, with destination-out, the
\* cell is erased, its guide included
NbPaint(c, gco, ink, pix) ==
    [c EXCEPT !.px = [p \in DOMAIN c.px |->
                        IF p \in pix THEN Composite(gco, ink, c.px[p])
                        ELSE c.px[p]],
              !.guides = IF gco = "destination-out"
                         THEN @ \ pix ELSE @]

\* calculateA4Dimensions(): the page unit for a window of sw x sh
A4Dimensions(sw, sh, wp, hp) ==
    [width |-> (sw * wp) \div 100, height |-> (sh * hp) \div 100]

CalculateA4Dimensions ==
    A4Dimensions(innerWidth, innerHeight, a4WidthPercent, a4HeightPercent)

\* The multiples of unit u that lie strictly inside 0..extent
Multiples(u, extent) ==
    IF u <= 0 THEN {} ELSE {k * u : k \in 1..(extent \div u)} \ {extent}

\* The cells drawPageSeparators() strokes: the rows at the multiples of the
\* page height and the columns at the multiples of the page width
GuideCells(c, dims) ==
    {p \in DOMAIN c.px :
        \/ \E y \in Multiples(dims.height, c.height) : p[2] = y \div Cell
        \/ \E x \in Multiples(dims.width, c.width) : p[1] = x \div Cell}

\* drawPageSeparators(): source-over strokes between save() and restore()
DrawPageSeparators(c, dims) == [c EXCEPT !.guides = @ \cup GuideCells(c, dims)]

\* InfiniteCanvas.updateStyles()
InfiniteUpdateStyles(cx, tool) ==
    CASE tool = "eraser" -> [cx EXCEPT !.gco = "destination-out"]
      [] tool = "laser" -> [cx EXCEPT !.gco = "source-over", !.style = "laser"]
      [] OTHER -> [cx EXCEPT !.gco = "source-over", !.style = "opaque"]

\* InfiniteCanvas.getMousePos(e): the notebook lies one px inside the viewport
InfiniteRect == [left |-> 1, top |-> 1]

InfiniteGetMousePos(cx, cy) ==
    IF cx = 0 \/ cy = 0 THEN Null
    ELSE Some(<<cx - InfiniteRect.left, cy - InfiniteRect.top>>)

\* The notebook after expandCanvas() or the resizing branch of handleResize():
\* new bitmap of w x h, old content put back, separators redrawn
NbResized(c, w, h, dims) ==
    DrawPageSeparators(NbPutImageData(NbBitmap(w, h), c), dims)

\* -------------------------------------------------------- TimestampManager
\* Array.prototype.find: the index of the first element satisfying P, 0 if none
FirstIndex(S, P(_)) ==
    IF \E i \in 1..Len(S) : P(S[i])
    THEN CHOOSE i \in 1..Len(S) : P(S[i]) /\ \A j \in 1..(i - 1) : ~P(S[j])
    ELSE 0

\* Existing with the window test replaced by an exact match of the times
ExistingExact(TD, t) ==
    LET Same(d) == d.time = t
    IN FirstIndex(TD, Same)

\* Existing with a window of less than 1 second
ExistingNarrow(TD, t) ==
    LET Near(d) == Abs(d.time - t) < Sec - 1
    IN FirstIndex(TD, Near)

\* save(): find(drawing => Math.abs(drawing.time - currentTime) < 1)
Existing(TD, t) ==
    LET Near(d) == Abs(d.time - t) < Sec
    IN FirstIndex(TD, Near)

\* checkAndDisplayDrawing(): find(next => next.time > d.time)
NextOf(TD, d) ==
    LET Later(n) == n.time > d.time
    IN FirstIndex(TD, Later)

\* checkAndDisplayDrawing(): the entry the outer find selects at time t
ActiveIndex(TD, t) ==
    LET Match(d) ==
            /\ t >= d.time
            /\ IF NextOf(TD, d) # 0 THEN t < TD[NextOf(TD, d)].time ELSE TRUE
    IN FirstIndex(TD, Match)

\* jumpTo(): find(d => d.time === time)
ExactIndex(TD, t) ==
    LET Same(d) == d.time = t
    IN FirstIndex(TD, Same)

\* delete(): filter(d => d.id !== id)
RECURSIVE FilterOutId(_, _)
FilterOutId(TD, id) ==
    IF TD = <<>> THEN <<>>
    ELSE IF Head(TD).id = id THEN FilterOutId(Tail(TD), id)
    ELSE <<Head(TD)>> \o FilterOutId(Tail(TD), id)

\* SavedList moving the entry it updates to the time of the save
SavedListRetimed(TD, t, data, stamp) ==
    LET i == Existing(TD, t)
    IN IF i # 0
       THEN [TD EXCEPT ![i].drawingData = data, ![i].created = stamp,
                       ![i].time = t]
       ELSE Append(TD, [id |-> stamp, time |-> t, drawingData |-> data,
                        created |-> stamp])

\* sort((a, b) => a.time - b.time) placing e among the sorted elements S: e
\* goes before the first element the comparator puts after it
RECURSIVE InsertByTime(_, _)
InsertByTime(S, e) ==
    IF S = <<>> THEN <<e>>
    ELSE IF Head(S).time - e.time > 0 THEN <<e>> \o S
    ELSE <<Head(S)>> \o InsertByTime(Tail(S), e)

\* [...timestampedDrawings].sort((a, b) => a.time - b.time)
RECURSIVE SortedByTime(_)
SortedByTime(TD) ==
    IF TD = <<>> THEN <<>>
    ELSE InsertByTime(SortedByTime(SubSeq(TD, 1, Len(TD) - 1)), TD[Len(TD)])

\* updateUI() presenting the entries in the order of the store
UpdateUIUnsorted(TD) == TD

\* updateUI(): the entries the container presents, none for an empty store
UpdateUI(TD) == IF Len(TD) = 0 THEN <<>> ELSE SortedByTime(TD)

\* The entry list save() leaves behind
SavedList(TD, t, data, stamp) ==
    LET i == Existing(TD, t)
    IN IF i # 0
       THEN [TD EXCEPT ![i].drawingData = data, ![i].created = stamp]
       ELSE Append(TD, [id |-> stamp, time |-> t, drawingData |-> data,
                        created |-> stamp])

\* ----------------------------------------------------------------- JSON
\* A JSON text is kept as the sequence of its members.  A literal is the
\* characters of a quoted string (with the bitmap it encodes when it is a data
\* URL), the decimal digits of a number, one of the words true, false and null,
\* or the texts of the items of an array.
RECURSIVE Digits(_)
Digits(n) == IF n < 10 THEN <<n>> ELSE Append(Digits(n \div 10), n % 10)

RECURSIVE FromDigits(_)
FromDigits(ds) ==
    IF ds = <<>> THEN 0
    ELSE 10 * FromDigits(SubSeq(ds, 1, Len(ds) - 1)) + ds[Len(ds)]

Literal(kind, chars, digits, url, items) ==
    [kind |-> kind, chars |-> chars, digits |-> digits, url |-> url,
     items |-> items]

\* JSON.stringify of a number, a string, a boolean or null
StringifyValue(v) ==
    CASE v.type = "number" -> Literal("number", "", Digits(v.num), NoUrl, <<>>)
      [] v.type = "string" -> Literal("string", v.str, <<>>, v.url, <<>>)
      [] v.type = "boolean" ->
            Literal("word", IF v.bool THEN "true" ELSE "false", <<>>, NoUrl, <<>>)
      [] OTHER -> Literal("word", "null", <<>>, NoUrl, <<>>)

\* JSON.parse reading every string literal back as the number of its digits
ParseValueLoose(l) ==
    CASE l.kind \in {"number", "string"} -> JsNum(FromDigits(l.digits))
      [] l.kind = "word" /\ l.chars = "true" -> JsBool(TRUE)
      [] l.kind = "word" /\ l.chars = "false" -> JsBool(FALSE)
      [] OTHER -> JsNull

\* JSON.parse of a number, a string, a boolean or null
ParseValue(l) ==
    CASE l.kind = "number" -> JsNum(FromDigits(l.digits))
      [] l.kind = "string" -> [JsStr(l.chars) EXCEPT !.url = l.url]
      [] l.kind = "word" /\ l.chars = "true" -> JsBool(TRUE)
      [] l.kind = "word" /\ l.chars = "false" -> JsBool(FALSE)
      [] OTHER -> JsNull

Member(key, lit) == [key |-> key, lit |-> lit]

\* data.key of a parsed object has a member to come from
HasMember(text, key) == \E i \in 1..Len(text) : text[i].key = key

\* The literal of the member named key of a JSON object text
Lookup(text, key) ==
    text[CHOOSE i \in 1..Len(text) : text[i].key = key].lit

\* A text that stops inside the literal of its k-th member
CutAt(text, k) ==
    Append(SubSeq(text, 1, k - 1),
           Member(text[k].key, Literal("cut", "", <<>>, NoUrl, <<>>)))

\* JSON.parse(text) does not throw SyntaxError
WellFormed(text) == \A i \in 1..Len(text) : text[i].lit.kind # "cut"

\* JSON.stringify of one entry of timestampedDrawings
StringifyEntry(e) ==
    << Member("id", StringifyValue(JsNum(e.id))),
       Member("time", StringifyValue(JsNum(e.time))),
       Member("drawingData", StringifyValue(JsUrl(e.drawingData))),
       Member("created", StringifyValue(JsNum(e.created))) >>

ParseEntry(text) ==
    [id |-> ParseValue(Lookup(text, "id")).num,
     time |-> ParseValue(Lookup(text, "time")).num,
     drawingData |-> ParseValue(Lookup(text, "drawingData")).url,
     created |-> ParseValue(Lookup(text, "created")).num]

\* toDataURL() of the notebook surface
NbToDataURL(c) ==
    [valid |-> (c.width > 0 /\ c.height > 0), width |-> c.width,
     height |-> c.height, px |-> c.px, guides |-> c.guides]

\* ----------------------------------------------------------- StorageManager
\* JSON.stringify(data) for the data object of saveData(); lastSaved is the ISO
\* text of the clock
Stringify(TD, c) ==
    << Member("videoUrl", StringifyValue(JsStr(youtubeUrl))),
       Member("timestampedDrawings",
              Literal("array", "", <<>>, NoUrl,
                      [i \in 1..Len(TD) |-> StringifyEntry(TD[i])])),
       Member("mainCanvasData", StringifyValue(JsUrl(ToDataURL(c)))),
       Member("infiniteCanvasData",
              StringifyValue(JsUrl(NbToDataURL(infiniteCanvas)))),
       Member("currentColor", StringifyValue(currentColor)),
       Member("brushSize", StringifyValue(brushSize)),
       Member("fontSize", StringifyValue(fontSize)),
       Member("fontFamily", StringifyValue(fontFamily)),
       Member("infiniteCanvasWidth",
              StringifyValue(JsNum(infiniteCanvas.width))),
       Member("infiniteCanvasHeight",
              StringifyValue(JsNum(infiniteCanvas.height))),
       Member("infiniteHorizontal", StringifyValue(JsBool(infiniteHorizontal))),
       Member("a4WidthPercent", StringifyValue(JsNum(a4WidthPercent))),
       Member("a4HeightPercent", StringifyValue(JsNum(a4HeightPercent))),
       Member("lastSaved", Literal("string", "iso", Digits(now), NoUrl, <<>>)) >>

\* JSON.parse(dataStr): the data object restoreData() receives
Parse(text) ==
    LET V(key) == IF HasMember(text, key) THEN ParseValue(Lookup(text, key))
                  ELSE JsUndefined
        items == IF HasMember(text, "timestampedDrawings")
                 THEN Lookup(text, "timestampedDrawings").items ELSE <<>>
    IN [videoUrl |-> V("videoUrl"),
        isArray |-> /\ HasMember(text, "timestampedDrawings")
                    /\ Lookup(text, "timestampedDrawings").kind = "array",
        timestampedDrawings |->
            [i \in 1..Len(items) |-> ParseEntry(items[i])],
        mainCanvasData |-> V("mainCanvasData"),
        infiniteCanvasData |-> V("infiniteCanvasData"),
        currentColor |-> V("currentColor"),
        brushSize |-> V("brushSize"),
        fontSize |-> V("fontSize"),
        fontFamily |-> V("fontFamily"),
        infiniteCanvasWidth |-> V("infiniteCanvasWidth"),
        infiniteCanvasHeight |-> V("infiniteCanvasHeight"),
        infiniteHorizontal |-> V("infiniteHorizontal"),
        a4WidthPercent |-> V("a4WidthPercent"),
        a4HeightPercent |-> V("a4HeightPercent"),
        lastSaved |-> V("lastSaved")]

\* saveData() that writes nothing more once a write has failed
SaveDataGivingUp(TD, c, ok) ==
    IF ok /\ saveReturned # Some(FALSE) THEN Some(Stringify(TD, c))
    ELSE localStorage

\* saveData(): the text written under STORAGE_KEY; a failed setItem leaves the
\* stored text as it was
SaveData(TD, c, ok) ==
    IF ok THEN Some(Stringify(TD, c)) ELSE localStorage

\* loadData() that hands on the members read before the text broke off
LoadDataLenient(stored) ==
    IF stored = Null THEN Null
    ELSE Some(Parse(SelectSeq(Val(stored), LAMBDA mb : mb.lit.kind # "cut")))

\* loadData() of the stored text: null when nothing is stored, and null from
\* the catch when JSON.parse throws
LoadDataFrom(stored) ==
    IF stored = Null \/ ~WellFormed(Val(stored)) THEN Null
    ELSE Some(Parse(Val(stored)))

LoadData == LoadDataFrom(localStorage)

\* restoreData() that assigns whatever data.key reads as
RestoredAlways(cur, v) == v

\* restoreData(): if (value) target = value
Restored(cur, v) == IF Truthy(v) THEN v ELSE cur

\* ------------------------------------------------------------- DrawingUtils
\* updateStyles() acts on the active context
UpdateStyles(cx, tool) ==
    CASE tool = "eraser" -> [cx EXCEPT !.gco = "destination-out"]
      [] tool = "laser" -> [cx EXCEPT !.gco = "source-over", !.style = "laser"]
      [] OTHER -> [cx EXCEPT !.gco = "source-over", !.style = "opaque"]

\* ---------------------------------------------------------------- timers
\* intervals holds the timers setInterval() has started and clearInterval() has
\* not stopped.  Only the identity of a timer matters, so an id is taken again
\* once its timer is gone and the one handle that held it is overwritten.
\* The id setInterval() returns when the timers in live are running
NewInterval(live) ==
    CHOOSE n \in 1..(Cardinality(live) + 1) : n \notin {i.id : i \in live}

\* setInterval(callback, ms) when the timers in live are running
SetInterval(live, callback) ==
    live \cup {[id |-> NewInterval(live), callback |-> callback]}

\* if (h) clearInterval(h) leaving the timer running
ClearIntervalSkipped(h) == intervals

\* if (this.timeUpdateInterval) clearInterval(this.timeUpdateInterval)
ClearInterval(h) ==
    IF h = Null THEN intervals ELSE {i \in intervals : i.id # Val(h)}

\* A 250ms interval running checkAndDisplayDrawing is live
PollLive == \E i \in intervals : i.callback = "poll"

\* ---------------------------------------------------------------- actions
\* The player test of save() and jumpTo() letting every call through
NoPlayerUnchecked == FALSE

\* if (!AppState.player) of save() and jumpTo()
NoPlayer == ~player

\* TimestampManager.save() at player time t
Save(t, ok) ==
    IF NoPlayer
    THEN /\ ev' = Ev("save", t, 0, "noplayer")
         /\ UNCHANGED <<nbVars, mediaVars, mhVars, callVars, setVars, playerVars, storeVars, surfVars, drawVars, asyncVars,
                        laserVars, localStorage, now, painted>>
    ELSE LET i == Existing(timestampedDrawings, t)
             data == ToDataURL(canvas)
             TD == SavedList(timestampedDrawings, t, data, now)
             merged == IF drawingMode
                       THEN DrawImage(canvas, ctx.gco, overlayCanvas)
                       ELSE canvas
         IN /\ (i = 0 => Len(timestampedDrawings) < MaxEntries)
            /\ pendingClears < MaxTimers
            /\ timestampedDrawings' = TD
            /\ timestampList' = UpdateUI(TD)
            /\ canvas' = merged
            /\ drawingMode' = FALSE
            /\ isDrawing' = IF drawingMode THEN FALSE ELSE isDrawing
            /\ pendingClears' = pendingClears + 1
            /\ currentTimestamp' = Some(t)
            /\ currentDrawingState' = Null
            /\ localStorage' = SaveData(TD, merged, ok)
            /\ ev' = Ev("save", t, IF i # 0 THEN i ELSE Len(TD),
                        IF i # 0 THEN "updated" ELSE "created")
            /\ saveReturned' = Some(ok)
            /\ UNCHANGED <<nbVars, mediaVars, mhVars, separatorLoop, setVars, playerVars, ctx, overlayCanvas, overlayCtx,
                           currentTool, startX, startY, pendingLoads,
                           pendingSaves, laserVars, now, painted>>

\* The callback of the setTimeout(..., 100) of save()
DeferredClear ==
    /\ pendingClears > 0
    /\ pendingClears' = pendingClears - 1
    /\ canvas' = ClearRect(canvas)
    /\ ev' = Ev("deferredClear", 0, 0, "")
    /\ UNCHANGED <<nbVars, mediaVars, mhVars, callVars, setVars, playerVars, storeVars, ctx, overlayCanvas, overlayCtx,
                   drawVars, pendingLoads, pendingSaves, laserVars,
                   localStorage, now, painted>>

\* TimestampManager.delete(id)
Delete(id, ok) ==
    LET TD == FilterOutId(timestampedDrawings, id)
    IN /\ timestampedDrawings' = TD
       /\ timestampList' = UpdateUI(TD)
       /\ localStorage' = SaveData(TD, canvas, ok)
       /\ ev' = Ev("delete", id, 0, "")
       /\ saveReturned' = Some(ok)
       /\ UNCHANGED <<nbVars, mediaVars, mhVars, separatorLoop, setVars, playerVars, currentTimestamp, currentDrawingState,
                      surfVars, drawVars, asyncVars, laserVars, now, painted>>

\* CanvasUtils.clear(): the surface it clears is the active one
ClearedCanvas == IF drawingMode THEN canvas ELSE ClearRect(canvas)
ClearedOverlay == IF drawingMode THEN ClearRect(overlayCanvas) ELSE overlayCanvas

\* TimestampManager.checkAndDisplayDrawing(t), run by the 250ms interval
TickWithin(t, limit) ==
    LET i == ActiveIndex(timestampedDrawings, t)
    IN /\ PollLive
       /\ ev' = Ev("tick", t, i, "fired")
       /\ IF i # 0 /\ currentTimestamp # Some(timestampedDrawings[i].time)
          THEN \* loadDrawing(drawing.drawingData, drawing.time)
               /\ Len(pendingLoads) < limit
               /\ pendingLoads' =
                      Append(pendingLoads, timestampedDrawings[i].drawingData)
               /\ currentTimestamp' = Some(timestampedDrawings[i].time)
               /\ currentDrawingState' =
                      Some(timestampedDrawings[i].drawingData)
               /\ UNCHANGED <<canvas, overlayCanvas>>
          ELSE IF i = 0 /\ currentTimestamp # Null
          THEN /\ canvas' = ClearedCanvas
               /\ overlayCanvas' = ClearedOverlay
               /\ currentDrawingState' = Null
               /\ currentTimestamp' = Null
               /\ UNCHANGED pendingLoads
          ELSE UNCHANGED <<canvas, overlayCanvas, currentTimestamp,
                           currentDrawingState, pendingLoads>>
       /\ UNCHANGED <<nbVars, mediaVars, mhVars, callVars, setVars, playerVars, timestampedDrawings, timestampList, ctx, overlayCtx,
                      drawVars, pendingClears, pendingSaves, laserVars,
                      localStorage, now, painted>>

Tick(t) == TickWithin(t, MaxLoads)

\* TimestampManager.jumpTo(time), from a row of the timestamp list
JumpToWithin(t, limit) ==
    LET i == ExactIndex(timestampedDrawings, t)
    IN /\ \E d \in 1..Len(timestampedDrawings) : timestampedDrawings[d].time = t
       /\ ev' = Ev("jumpTo", t, i, "")
       /\ IF NoPlayer
          THEN UNCHANGED <<canvas, overlayCanvas, currentTimestamp,
                           currentDrawingState, pendingLoads>>
          ELSE IF i # 0
          THEN /\ Len(pendingLoads) < limit
               /\ pendingLoads' =
                      Append(pendingLoads, timestampedDrawings[i].drawingData)
               /\ currentTimestamp' = Some(t)
               /\ currentDrawingState' =
                      Some(timestampedDrawings[i].drawingData)
               /\ UNCHANGED <<canvas, overlayCanvas>>
          ELSE /\ canvas' = ClearedCanvas
               /\ overlayCanvas' = ClearedOverlay
               /\ currentDrawingState' = Null
               /\ currentTimestamp' = Some(t)
               /\ UNCHANGED pendingLoads
       /\ UNCHANGED <<nbVars, mediaVars, mhVars, callVars, setVars, playerVars, timestampedDrawings, timestampList, ctx, overlayCtx,
                      drawVars, pendingClears, pendingSaves, laserVars,
                      localStorage, now, painted>>

JumpTo(t) == JumpToWithin(t, MaxLoads)

\* The "Load Only" button of row i: loadDrawing(drawingData) without timestamp
LoadOnly(i) ==
    /\ i \in 1..Len(timestampedDrawings)
    /\ Len(pendingLoads) < MaxLoads
    /\ pendingLoads' = Append(pendingLoads, timestampedDrawings[i].drawingData)
    /\ ev' = Ev("loadOnly", i, 0, "")
    /\ UNCHANGED <<nbVars, mediaVars, mhVars, callVars, setVars, playerVars, storeVars, surfVars, drawVars, pendingClears,
                   pendingSaves, laserVars, localStorage, now, painted>>

\* img.onload of loadDrawing, for the k-th image in flight; an image that
\* cannot be decoded never fires onload
RemoveAt(S, k) == SubSeq(S, 1, k - 1) \o SubSeq(S, k + 1, Len(S))

ImageLoaded(k) ==
    /\ k \in 1..Len(pendingLoads)
    /\ pendingLoads' = RemoveAt(pendingLoads, k)
    /\ canvas' = IF pendingLoads[k].valid
                 THEN DrawImage(ClearRect(canvas), ctx.gco, pendingLoads[k])
                 ELSE canvas
    /\ ev' = IF ev.op = "tick" THEN [ev EXCEPT !.k = "loaded"]
             ELSE Ev("imageLoaded", 0, 0, "")
    /\ UNCHANGED <<nbVars, mediaVars, mhVars, callVars, setVars, playerVars, storeVars, ctx, overlayCanvas, overlayCtx,
                   drawVars, pendingClears, pendingSaves, laserVars,
                   localStorage, now, painted>>

\* ------------------------------------------------------------- CanvasUtils
\* CanvasUtils.clear(), the "clear" button
ClearCanvas ==
    /\ canvas' = ClearedCanvas
    /\ overlayCanvas' = ClearedOverlay
    /\ currentDrawingState' = Null
    /\ ev' = Ev("clear", 0, 0, "")
    /\ UNCHANGED <<nbVars, mediaVars, mhVars, callVars, setVars, playerVars, timestampedDrawings, timestampList, currentTimestamp, ctx,
                   overlayCtx, drawVars, asyncVars, laserVars, localStorage,
                   now, painted>>

\* getImageData(0, 0, width, height) throws IndexSizeError on an empty source
\* rectangle, which ends resize() before it assigns anything
ResizeThrows == canvas.width = 0 \/ canvas.height = 0

\* resize() that assigns the new size and puts nothing back
ResizedCanvasBlank(w, h) == NewBitmap(w, h)

\* The persistent surface after resize(): new bitmap, old pixels put back at 0,0
ResizedCanvas(w, h) == PutImageData(NewBitmap(w, h), canvas)

\* The contexts after resize(): both reset, then updateStyles() on the active one
ResizedCtx == IF drawingMode THEN DefaultCtx ELSE UpdateStyles(DefaultCtx, currentTool)
ResizedOverlayCtx == IF drawingMode THEN UpdateStyles(DefaultCtx, currentTool) ELSE DefaultCtx

\* CanvasUtils.resize() when the container measures w x h
Resize(w, h) ==
    /\ ev' = Ev("resize", w, h, IF ResizeThrows THEN "threw" ELSE "done")
    /\ IF ResizeThrows
       THEN UNCHANGED surfVars
       ELSE /\ canvas' = ResizedCanvas(w, h)
            /\ overlayCanvas' = NewBitmap(w, h)
            /\ ctx' = ResizedCtx
            /\ overlayCtx' = ResizedOverlayCtx
    /\ UNCHANGED <<nbVars, mediaVars, mhVars, callVars, setVars, playerVars, storeVars, drawVars, asyncVars, laserVars,
                   localStorage, now, painted>>

\* -------------------------------------------------------------- DrawingMode
\* DrawingMode.open(): pauses the player, shows the overlay, updateStyles()
OpenDrawingMode ==
    /\ ~drawingMode
    /\ drawingMode' = TRUE
    /\ overlayCtx' = UpdateStyles(overlayCtx, currentTool)
    /\ ev' = Ev("open", 0, 0, "")
    /\ UNCHANGED <<nbVars, mediaVars, mhVars, callVars, setVars, playerVars, storeVars, canvas, ctx, overlayCanvas,
                   isDrawing, currentTool, startX, startY, asyncVars,
                   laserVars, localStorage, now, painted>>

\* DrawingMode.close()
CloseDrawingMode ==
    /\ drawingMode' = FALSE
    /\ isDrawing' = FALSE
    /\ ev' = Ev("close", 0, 0, "")
    /\ UNCHANGED <<nbVars, mediaVars, mhVars, callVars, setVars, playerVars, storeVars, surfVars, currentTool, startX,
                   startY, asyncVars, laserVars, localStorage, now, painted>>

\* click on a tool button: sets the tool, then updateStyles()
SelectTool(tool) ==
    /\ currentTool' = tool
    /\ ctx' = IF drawingMode THEN ctx ELSE UpdateStyles(ctx, tool)
    /\ overlayCtx' = IF drawingMode THEN UpdateStyles(overlayCtx, tool)
                     ELSE overlayCtx
    /\ ev' = Ev("tool", 0, 0, tool)
    /\ UNCHANGED <<nbVars, mediaVars, mhVars, callVars, setVars, playerVars, storeVars, canvas, overlayCanvas, isDrawing,
                   drawingMode, startX, startY, asyncVars, laserVars,
                   localStorage, now, painted>>

\* ----------------------------------------------------------- YouTubeManager
\* loadVideo() with a valid URL once the API is ready: createPlayer() or
\* loadVideoById(), then CanvasUtils.clear()
LoadVideo ==
    /\ player' = TRUE
    /\ playerState' = IF player THEN playerState ELSE "unstarted"
    /\ canvas' = ClearedCanvas
    /\ overlayCanvas' = ClearedOverlay
    /\ currentDrawingState' = Null
    /\ ev' = Ev("loadVideo", 0, 0, "")
    /\ UNCHANGED <<nbVars, mediaVars, mhVars, callVars, setVars, playerReady, timeUpdateInterval, intervals, timestampedDrawings, timestampList,
                   currentTimestamp, ctx, overlayCtx, drawVars, asyncVars,
                   laserVars, localStorage, now, painted>>

\* onReady of the player: CanvasUtils.resize(), playVideo(), startTimeUpdater()
OnReady(w, h) ==
    /\ player /\ ~playerReady
    /\ playerReady' = TRUE
    /\ ev' = Ev("ready", w, h, IF ResizeThrows THEN "threw" ELSE "done")
    /\ IF ResizeThrows
       THEN UNCHANGED <<surfVars, timeUpdateInterval, intervals>>
       ELSE /\ canvas' = ResizedCanvas(w, h)
            /\ overlayCanvas' = NewBitmap(w, h)
            /\ ctx' = ResizedCtx
            /\ overlayCtx' = ResizedOverlayCtx
            /\ timeUpdateInterval' =
                   Some(NewInterval(ClearInterval(timeUpdateInterval)))
            /\ intervals' = SetInterval(ClearInterval(timeUpdateInterval),
                                        "display")
    /\ UNCHANGED <<nbVars, mediaVars, mhVars, callVars, setVars, player, playerState, storeVars, drawVars, asyncVars, laserVars,
                   localStorage, now, painted>>

\* onStateChange of the player: PLAYING replaces the interval by the 250ms
\* poll, any other state clears the interval and keeps its handle
OnStateChange(s) ==
    /\ player
    /\ playerState' = s
    /\ timeUpdateInterval' =
           IF s = "playing"
           THEN Some(NewInterval(ClearInterval(timeUpdateInterval)))
           ELSE timeUpdateInterval
    /\ intervals' =
           IF s = "playing"
           THEN SetInterval(ClearInterval(timeUpdateInterval), "poll")
           ELSE ClearInterval(timeUpdateInterval)
    /\ ev' = Ev("stateChange", 0, 0, s)
    /\ UNCHANGED <<nbVars, mediaVars, mhVars, callVars, setVars, player, playerReady, storeVars, surfVars, drawVars,
                   asyncVars, laserVars, localStorage, now, painted>>

PlayerStates == {"playing", "paused", "ended"}

\* ------------------------------------------------------------ DrawingEvents
\* getBoundingClientRect() of the active canvas: the surface lies one unit
\* inside the viewport and is shown at its bitmap size
BoundingRect == [left |-> 1, top |-> 1]

\* CanvasUtils.getMousePos(e): null when clientX or clientY is missing or 0
GetMousePos(cx, cy) ==
    IF cx = 0 \/ cy = 0 THEN Null
    ELSE Some(<<cx - BoundingRect.left, cy - BoundingRect.top>>)

\* ctx.beginPath(); ctx.moveTo(p)
BeginAt(cx, p) == [cx EXCEPT !.pen = Some(p), !.path = {}]

\* ctx.lineTo(p): without a current point it only moves the pen
LineTo(cx, p) ==
    IF cx.pen = Null THEN [cx EXCEPT !.pen = Some(p)]
    ELSE [cx EXCEPT !.path = @ \cup Seg(Val(cx.pen), p), !.pen = Some(p)]

\* ctx.stroke(): paints the whole current path
Stroke(c, cx) == Paint(c, cx.gco, StrokeInk(cx.style, "full"), cx.path)

\* floor of the square root
Isqrt(n) == CHOOSE r \in 0..n : r * r <= n /\ (r + 1) * (r + 1) > n

\* The path a shape call leaves in the context: strokeRect leaves it alone
ShapePath(cx, tool, p, q) ==
    CASE tool \in {"line", "arrow"} ->
            [cx EXCEPT !.path = Seg(p, q), !.pen = Some(q)]
      [] tool = "circle" ->
            [cx EXCEPT !.path = CirclePix(p, q),
               !.pen = Some(<<p[1] + Isqrt((q[1] - p[1]) * (q[1] - p[1])
                                        + (q[2] - p[2]) * (q[2] - p[2])), p[2]>>)]
      [] OTHER -> cx

\* The arguments of the shape call stop() issues for the tool
ShapeCall(tool, p, q) ==
    [tool |-> tool, x |-> p[1], y |-> p[2], w |-> q[1] - p[1], h |-> q[2] - p[2]]

\* LaserUtils.addLaserStroke(stroke): opacity is kept in units of 1/FadeMs
AddedStroke(stroke) ==
    [points |-> stroke.points, canvas |-> stroke.canvas, opacity |-> FadeMs,
     createdAt |-> now, fadeStartTime |-> now + HoldMs]

\* addLaserStroke() starting a fade loop whatever laserAnimationId is
StartedLoopsAlways(id, pending) == pending + 1

\* addLaserStroke(): if (!laserAnimationId) startFadeAnimation()
StartedLoops(id, pending) == IF id = Null THEN pending + 1 ELSE pending

\* DrawingEvents.start(e); bound is whether `this` is DrawingEvents (the touch
\* wrappers) or the canvas element (the mouse listeners)
Start(bound, cx, cy) ==
    LET pos == GetMousePos(cx, cy)
        p == Val(pos)
    IN /\ ev' = Ev("start", cx, cy, IF bound THEN "touch" ELSE "mouse")
       /\ IF pos = Null \/ currentTool = "text"
          THEN \* no position; or the text tool: this.handleTextClick
               UNCHANGED <<surfVars, isDrawing, startX, startY,
                           currentLaserStroke, painted>>
          ELSE /\ isDrawing' = TRUE
               /\ startX' = p[1]
               /\ startY' = p[2]
               /\ painted' = Null
               /\ IF currentTool = "pencil"
                  THEN /\ ctx' = BeginAt([ctx EXCEPT !.gco = "source-over",
                                             !.style = "opaque"], p)
                       /\ UNCHANGED <<canvas, overlayCanvas, overlayCtx,
                                      currentLaserStroke>>
                  ELSE IF currentTool = "eraser"
                  THEN /\ ctx' = BeginAt([ctx EXCEPT !.gco = "destination-out"], p)
                       /\ UNCHANGED <<canvas, overlayCanvas, overlayCtx,
                                      currentLaserStroke>>
                  ELSE IF currentTool = "laser"
                  THEN /\ currentLaserStroke' =
                              Some([points |-> <<p>>,
                                    canvas |-> IF drawingMode THEN "overlay"
                                               ELSE "main"])
                       /\ overlayCanvas' = ClearRect(overlayCanvas)
                       /\ overlayCtx' = BeginAt([overlayCtx EXCEPT
                                                   !.gco = "source-over",
                                                   !.style = "laser"], p)
                       /\ UNCHANGED <<canvas, ctx>>
                  ELSE UNCHANGED <<surfVars, currentLaserStroke>>
       /\ UNCHANGED <<nbVars, mediaVars, mhVars, callVars, setVars, playerVars, storeVars, drawingMode, currentTool,
                      asyncVars, laserStrokes, laserAnimationId, rafPending,
                      localStorage, now>>

\* DrawingEvents.drawPreview(x, y): overlay := persistent surface + preview
PreviewOverlay(q) ==
    LET copied == IF canvas.width > 0 /\ canvas.height > 0
                  THEN DrawImage(ClearRect(overlayCanvas), overlayCtx.gco, canvas)
                  ELSE ClearRect(overlayCanvas)
    IN Paint(copied, "source-over", StrokeInk("opaque", "preview"),
             ShapePix(currentTool, <<startX, startY>>, q))

PreviewCtx(q) ==
    ShapePath([overlayCtx EXCEPT !.style = "opaque", !.gco = "source-over"],
              currentTool, <<startX, startY>>, q)

\* DrawingEvents.draw(e)
Draw(bound, cx, cy) ==
    LET pos == GetMousePos(cx, cy)
        p == Val(pos)
    IN /\ ev' = Ev("draw", cx, cy, IF bound THEN "touch" ELSE "mouse")
       /\ IF ~isDrawing \/ pos = Null
          THEN UNCHANGED <<surfVars, currentLaserStroke>>
          ELSE IF currentTool \in {"pencil", "eraser"}
          THEN /\ ctx' = LineTo(ctx, p)
               /\ canvas' = Stroke(canvas, LineTo(ctx, p))
               /\ UNCHANGED <<overlayCanvas, overlayCtx, currentLaserStroke>>
          ELSE IF currentTool = "laser"
          THEN /\ currentLaserStroke # Null =>
                      Len(Val(currentLaserStroke).points) < MaxPoints - 1
               /\ currentLaserStroke' =
                      IF currentLaserStroke = Null THEN Null
                      ELSE Some([Val(currentLaserStroke) EXCEPT
                                   !.points = Append(@, p)])
               /\ overlayCtx' = LineTo(overlayCtx, p)
               /\ overlayCanvas' = Stroke(overlayCanvas, LineTo(overlayCtx, p))
               /\ UNCHANGED <<canvas, ctx>>
          ELSE IF bound
          THEN /\ overlayCanvas' = PreviewOverlay(p)
               /\ overlayCtx' = PreviewCtx(p)
               /\ UNCHANGED <<canvas, ctx, currentLaserStroke>>
          ELSE \* this.drawPreview is not a function of the canvas element
               UNCHANGED <<surfVars, currentLaserStroke>>
       /\ UNCHANGED <<nbVars, mediaVars, mhVars, callVars, setVars, playerVars, storeVars, drawVars, asyncVars, laserStrokes,
                      laserAnimationId, rafPending, localStorage, now, painted>>

\* DrawingEvents.stop(e) when the pointer is released at client position cx, cy;
\* kind is the listener: mouseup and mouseout pass their event on, touchend
\* passes new MouseEvent('mouseup', {}), whose clientX and clientY are 0
Stop(kind, cx, cy) ==
    LET pos == IF kind = "touchend" THEN GetMousePos(0, 0)
               ELSE GetMousePos(cx, cy)
        p == Val(pos)
        s == <<startX, startY>>
        laser == currentTool = "laser" /\ currentLaserStroke # Null
        shape == currentTool \notin {"pencil", "eraser", "laser"}
        cleared == ClearRect(overlayCanvas)
    IN /\ ev' = Ev("stop", cx, cy, kind)
       /\ IF ~isDrawing
          THEN UNCHANGED <<surfVars, isDrawing, laserVars, pendingSaves, painted>>
          ELSE /\ isDrawing' = FALSE
               /\ IF pos = Null
                  THEN UNCHANGED <<surfVars, laserVars, pendingSaves, painted>>
                  ELSE /\ IF laser
                          THEN /\ Len(laserStrokes) < MaxStrokes
                               /\ laserStrokes' = Append(laserStrokes,
                                      AddedStroke([Val(currentLaserStroke) EXCEPT
                                                     !.points = Append(@, p)]))
                               /\ laserAnimationId' = Some("raf")
                               /\ rafPending' = StartedLoops(laserAnimationId,
                                                              rafPending)
                               /\ currentLaserStroke' = Null
                          ELSE UNCHANGED laserVars
                       /\ IF shape
                          THEN /\ pendingSaves < MaxTimers
                               /\ overlayCanvas' = cleared
                               /\ ctx' = ShapePath([ctx EXCEPT !.style = "opaque",
                                                      !.gco = "source-over"],
                                                   currentTool, s, p)
                               /\ canvas' = Paint(canvas, "source-over", "ink",
                                                  ShapePix(currentTool, s, p))
                               /\ painted' = IF currentTool \in ShapeTools
                                             THEN Some(ShapeCall(currentTool, s, p))
                                             ELSE painted
                               /\ pendingSaves' = pendingSaves + 1
                               /\ UNCHANGED overlayCtx
                          ELSE /\ overlayCanvas' = IF laser THEN cleared
                                                   ELSE overlayCanvas
                               /\ UNCHANGED <<canvas, ctx, overlayCtx,
                                              pendingSaves, painted>>
       /\ UNCHANGED <<nbVars, mediaVars, mhVars, callVars, setVars, playerVars, storeVars, drawingMode, currentTool, startX,
                      startY, pendingLoads, pendingClears, localStorage, now>>

\* The callback of the setTimeout(() => StorageManager.saveData(), 100) of stop()
AutoSave(ok) ==
    /\ pendingSaves > 0
    /\ pendingSaves' = pendingSaves - 1
    /\ localStorage' = SaveData(timestampedDrawings, canvas, ok)
    /\ ev' = Ev("autoSave", 0, 0, "")
    /\ saveReturned' = Some(ok)
    /\ UNCHANGED <<nbVars, mediaVars, mhVars, separatorLoop, setVars, playerVars, storeVars, surfVars, drawVars, pendingLoads,
                   pendingClears, laserVars, now, painted>>

\* --------------------------------------------------------------- LaserUtils
\* pixels of moveTo(points[0]); lineTo(points[i])...
PathOf(points) ==
    UNION {Seg(points[i], points[i + 1]) : i \in 1..(Len(points) - 1)}

\* animate() fading a stroke from the moment it was added
FadedStrokeNoHold(s, t) ==
    IF t > s.createdAt
    THEN [s EXCEPT !.opacity = Max(0, FadeMs - (t - s.createdAt))]
    ELSE s

\* animate(): the opacity of a stroke at time t
FadedStroke(s, t) ==
    IF t > s.fadeStartTime
    THEN [s EXCEPT !.opacity = Max(0, FadeMs - (t - s.fadeStartTime))]
    ELSE s

\* drawFadingStroke(): the alpha byte Math.floor(opacity * 128) is not zero
Visible(s) == s.opacity * 128 >= FadeMs

\* redrawWithLaserFade(): the overlay after the strokes tagged 'overlay' are
\* redrawn; skipped while a pointer is down
RedrawnOverlay(strokes) ==
    IF isDrawing THEN overlayCanvas
    ELSE LET pix == UNION {PathOf(strokes[i].points) :
                             i \in {j \in 1..Len(strokes) :
                                      /\ strokes[j].canvas = "overlay"
                                      /\ strokes[j].opacity > 0
                                      /\ Len(strokes[j].points) > 1
                                      /\ Visible(strokes[j])}}
         IN Paint(ClearRect(overlayCanvas), "source-over", "laser", pix)

\* drawFadingStroke() restores the styles but leaves its path in the context
RedrawnOverlayCtx(strokes) ==
    LET IsOverlay(s) == s.canvas = "overlay" /\ s.opacity > 0
        drawn == SelectSeq(strokes, IsOverlay)
    IN IF isDrawing \/ drawn = <<>> THEN overlayCtx
       ELSE LET last == drawn[Len(drawn)]
            IN IF Len(last.points) > 1
               THEN [overlayCtx EXCEPT !.path = PathOf(last.points),
                                       !.pen = Some(last.points[Len(last.points)])]
               ELSE [overlayCtx EXCEPT !.path = {}, !.pen = Null]

\* cells of moveTo(points[0]); lineTo(points[i])... on the notebook overlay
CellPathOf(points) ==
    UNION {Seg(CellOf(points[i]), CellOf(points[i + 1])) :
             i \in 1..(Len(points) - 1)}

\* redrawWithLaserFade(): the notebook laser overlay after the strokes tagged
\* 'infinite' are redrawn; skipped while a pointer is down on the notebook and
\* when no such stroke is left
RedrawnInfinite(strokes) ==
    IF \/ infiniteLaserCtx = Null
       \/ infiniteDrawing
       \/ ~\E j \in 1..Len(strokes) : /\ strokes[j].canvas = "infinite"
                                      /\ strokes[j].opacity > 0
    THEN infiniteLaserCanvas
    ELSE LET pix == UNION {CellPathOf(strokes[i].points) :
                             i \in {j \in 1..Len(strokes) :
                                      /\ strokes[j].canvas = "infinite"
                                      /\ strokes[j].opacity > 0
                                      /\ Len(strokes[j].points) > 1
                                      /\ Visible(strokes[j])}}
         IN Some(Paint(LaserClearRect(Val(infiniteLaserCanvas)),
                       "source-over", "laser", pix))

RedrawnInfiniteCtx(strokes) ==
    LET IsInfinite(s) == s.canvas = "infinite" /\ s.opacity > 0
        drawn == SelectSeq(strokes, IsInfinite)
    IN IF infiniteLaserCtx = Null \/ infiniteDrawing \/ drawn = <<>>
       THEN infiniteLaserCtx
       ELSE LET last == drawn[Len(drawn)]
            IN IF Len(last.points) > 1
               THEN Some([Val(infiniteLaserCtx) EXCEPT
                            !.path = CellPathOf(last.points),
                            !.pen = Some(last.points[Len(last.points)])])
               ELSE Some([Val(infiniteLaserCtx) EXCEPT
                            !.path = {}, !.pen = Null])

\* animate(): the strokes that stay tracked after a frame
RemainingStrokesAll(updated) == updated

RemainingStrokes(updated) ==
    LET Active(s) == s.opacity > 0
    IN SelectSeq(updated, Active)

\* redrawWithLaserFade() stroking the strokes tagged 'overlay' on the
\* persistent context as well
FrameCanvasPainted(strokes) ==
    Paint(canvas, "source-over", "laser",
          UNION {PathOf(strokes[i].points) :
                   i \in {j \in 1..Len(strokes) :
                            /\ strokes[j].canvas = "overlay"
                            /\ Len(strokes[j].points) > 1}})

\* redrawWithLaserFade(): the persistent video surface after a frame; the
\* frame draws through overlayCtx and infiniteLaserCtx only
FrameCanvas(strokes) == canvas

\* One run of animate(), dt after the previous event
AnimateFrame(dt) ==
    LET t == now + dt
        updated == [i \in 1..Len(laserStrokes) |-> FadedStroke(laserStrokes[i], t)]
        Active(s) == s.opacity > 0
        hasActiveStrokes == \E i \in 1..Len(updated) : Active(updated[i])
        kept == RemainingStrokes(updated)
    IN /\ rafPending > 0
       /\ t <= MaxClock
       /\ now' = t
       /\ laserStrokes' = kept
       /\ overlayCanvas' = RedrawnOverlay(kept)
       /\ overlayCtx' = RedrawnOverlayCtx(kept)
       /\ canvas' = FrameCanvas(kept)
       /\ infiniteLaserCanvas' = RedrawnInfinite(kept)
       /\ infiniteLaserCtx' = RedrawnInfiniteCtx(kept)
       /\ laserAnimationId' = IF hasActiveStrokes THEN Some("raf") ELSE Null
       /\ rafPending' = IF hasActiveStrokes THEN rafPending ELSE rafPending - 1
       /\ ev' = Ev("animate", t, 0, "")
       /\ UNCHANGED <<setVars, playerVars, storeVars, ctx, drawVars,
                      asyncVars, currentLaserStroke, localStorage, painted,
                      infiniteCanvas, infiniteCtx, infiniteDrawing,
                      currentInfiniteLaserStroke, innerWidth, innerHeight,
                      pendingRestores, mediaVars, mhVars, callVars>>

\* Wall clock time passing between two events
ClockAdvance(dt, limit) ==
    /\ now + dt <= limit
    /\ now' = now + dt
    /\ ev' = Ev("clock", dt, 0, "")
    /\ UNCHANGED <<nbVars, mediaVars, mhVars, callVars, setVars, playerVars, storeVars, surfVars, drawVars, asyncVars,
                   laserVars, localStorage, painted>>

\* ----------------------------------------------------------- InfiniteCanvas
\* lineTo on the notebook context: the path is kept in cells, the pen in px
NbLineTo(cx, p) ==
    IF cx.pen = Null THEN [cx EXCEPT !.pen = Some(p)]
    ELSE [cx EXCEPT !.path = @ \cup Seg(CellOf(Val(cx.pen)), CellOf(p)),
                    !.pen = Some(p)]

\* The path drawPageSeparators() leaves in the context: that of the last line
\* it stroked (save() and restore() do not cover the path)
SeparatorCtx(cx, c, dims) ==
    LET xs == Multiples(dims.width, c.width)
        ys == Multiples(dims.height, c.height)
        lastx == CHOOSE x \in xs : \A z \in xs : z <= x
        lasty == CHOOSE y \in ys : \A z \in ys : z <= y
    IN IF xs # {}
       THEN [cx EXCEPT !.path = {p \in DOMAIN c.px : p[1] = lastx \div Cell},
                       !.pen = Some(<<lastx, c.height>>)]
       ELSE IF ys # {}
       THEN [cx EXCEPT !.path = {p \in DOMAIN c.px : p[2] = lasty \div Cell},
                       !.pen = Some(<<c.width, lasty>>)]
       ELSE cx

\* The in-progress stroke record startDrawing() creates for the laser
NewInfiniteStroke(p) == [points |-> <<p>>, canvas |-> "infinite"]

\* InfiniteCanvas.startDrawing(e)
InfiniteStartDrawing(kind, cx, cy) ==
    LET pos == InfiniteGetMousePos(cx, cy)
        p == Val(pos)
        made == IF infiniteLaserCanvas = Null
                THEN LaserBitmap(infiniteCanvas.width, infiniteCanvas.height)
                ELSE Val(infiniteLaserCanvas)
    IN /\ ev' = Ev("nbStart", cx, cy, kind)
       /\ IF pos = Null \/ currentTool = "text"
          THEN \* no position; or the text tool: handleInfiniteTextClick
               UNCHANGED <<infiniteDrawing, startX, startY, infiniteCtx,
                           currentInfiniteLaserStroke, infiniteLaserCanvas,
                           infiniteLaserCtx>>
          ELSE /\ infiniteDrawing' = TRUE
               /\ startX' = p[1]
               /\ startY' = p[2]
               /\ IF currentTool \in {"pencil", "eraser"}
                  THEN /\ infiniteCtx' =
                              BeginAt(InfiniteUpdateStyles(infiniteCtx,
                                                           currentTool), p)
                       /\ UNCHANGED <<currentInfiniteLaserStroke,
                                      infiniteLaserCanvas, infiniteLaserCtx>>
                  ELSE IF currentTool = "laser"
                  THEN /\ currentInfiniteLaserStroke' =
                              Some(NewInfiniteStroke(p))
                       /\ infiniteLaserCanvas' = Some(LaserClearRect(made))
                       /\ infiniteLaserCtx' =
                              Some(BeginAt([gco |-> "source-over",
                                            style |-> "laser", pen |-> Null,
                                            path |-> {}], p))
                       /\ UNCHANGED infiniteCtx
                  ELSE UNCHANGED <<infiniteCtx, currentInfiniteLaserStroke,
                                   infiniteLaserCanvas, infiniteLaserCtx>>
       /\ UNCHANGED <<setVars, playerVars, storeVars, surfVars, isDrawing,
                      drawingMode, currentTool, asyncVars, laserVars,
                      localStorage, now, painted, infiniteCanvas, innerWidth,
                      innerHeight, pendingRestores, mediaVars, mhVars, callVars>>

\* InfiniteCanvas.draw(e)
InfiniteDraw(kind, cx, cy) ==
    LET pos == InfiniteGetMousePos(cx, cy)
        p == Val(pos)
        lined == NbLineTo(infiniteCtx, p)
        llined == NbLineTo(Val(infiniteLaserCtx), p)
    IN /\ ev' = Ev("nbDraw", cx, cy, kind)
       /\ IF ~infiniteDrawing \/ pos = Null
          THEN UNCHANGED <<infiniteCanvas, infiniteCtx,
                           currentInfiniteLaserStroke, infiniteLaserCanvas,
                           infiniteLaserCtx>>
          ELSE IF currentTool \in {"pencil", "eraser"}
          THEN /\ infiniteCtx' = lined
               /\ infiniteCanvas' =
                      NbPaint(infiniteCanvas, lined.gco,
                              StrokeInk(lined.style, "full"), lined.path)
               /\ UNCHANGED <<currentInfiniteLaserStroke, infiniteLaserCanvas,
                              infiniteLaserCtx>>
          ELSE IF currentTool = "laser"
          THEN /\ currentInfiniteLaserStroke # Null =>
                      Len(Val(currentInfiniteLaserStroke).points) < MaxPoints - 1
               /\ currentInfiniteLaserStroke' =
                      IF currentInfiniteLaserStroke = Null THEN Null
                      ELSE Some([Val(currentInfiniteLaserStroke) EXCEPT
                                   !.points = Append(@, p)])
               /\ IF infiniteLaserCtx # Null
                  THEN /\ infiniteLaserCtx' = Some(llined)
                       /\ infiniteLaserCanvas' =
                              Some(Paint(Val(infiniteLaserCanvas), llined.gco,
                                         StrokeInk(llined.style, "full"),
                                         llined.path))
                  ELSE UNCHANGED <<infiniteLaserCanvas, infiniteLaserCtx>>
               /\ UNCHANGED <<infiniteCanvas, infiniteCtx>>
          ELSE UNCHANGED <<infiniteCanvas, infiniteCtx,
                           currentInfiniteLaserStroke, infiniteLaserCanvas,
                           infiniteLaserCtx>>
       /\ UNCHANGED <<setVars, playerVars, storeVars, surfVars, drawVars,
                      asyncVars, laserVars, localStorage, now, painted,
                      infiniteDrawing, innerWidth, innerHeight,
                      pendingRestores, mediaVars, mhVars, callVars>>

\* InfiniteCanvas.stopDrawing(e) when the pointer is released at client
\* position cx, cy; the touchend listener passes an event without coordinates
InfiniteStopDrawing(kind, cx, cy) ==
    LET pos == IF kind = "touchend" THEN InfiniteGetMousePos(0, 0)
               ELSE InfiniteGetMousePos(cx, cy)
        p == Val(pos)
        s == <<startX, startY>>
        laser == currentTool = "laser" /\ currentInfiniteLaserStroke # Null
        shape == currentTool \notin {"pencil", "eraser", "laser"}
        styled == IF shape THEN InfiniteUpdateStyles(infiniteCtx, currentTool)
                  ELSE infiniteCtx
        shaped == IF shape
                  THEN ShapePath(styled, currentTool, CellOf(s), CellOf(p))
                  ELSE styled
        drawn == IF shape
                 THEN NbPaint(infiniteCanvas, styled.gco,
                              StrokeInk(styled.style, "full"),
                              ShapePix(currentTool, CellOf(s), CellOf(p)))
                 ELSE infiniteCanvas
    IN /\ ev' = Ev("nbStop", cx, cy, kind)
       /\ IF ~infiniteDrawing
          THEN UNCHANGED <<infiniteDrawing, infiniteCanvas, infiniteCtx,
                           currentInfiniteLaserStroke, infiniteLaserCanvas,
                           infiniteLaserCtx, laserVars, pendingSaves>>
          ELSE /\ infiniteDrawing' = FALSE
               /\ IF pos = Null
                  THEN UNCHANGED <<infiniteCanvas, infiniteCtx,
                                   currentInfiniteLaserStroke,
                                   infiniteLaserCanvas, infiniteLaserCtx,
                                   laserVars, pendingSaves>>
                  ELSE /\ IF laser
                          THEN /\ Len(laserStrokes) < MaxStrokes
                               /\ laserStrokes' = Append(laserStrokes,
                                      AddedStroke(
                                        [Val(currentInfiniteLaserStroke) EXCEPT
                                           !.points = Append(@, p)]))
                               /\ laserAnimationId' = Some("raf")
                               /\ rafPending' = StartedLoops(laserAnimationId,
                                                              rafPending)
                               /\ currentInfiniteLaserStroke' = Null
                               /\ infiniteLaserCanvas' =
                                      IF infiniteLaserCtx = Null
                                      THEN infiniteLaserCanvas
                                      ELSE Some(LaserClearRect(Val(infiniteLaserCanvas)))
                               /\ infiniteLaserCtx' =
                                      IF infiniteLaserCtx = Null THEN Null
                                      ELSE Some([Val(infiniteLaserCtx) EXCEPT
                                                   !.path = {}, !.pen = Null])
                               /\ UNCHANGED currentLaserStroke
                          ELSE UNCHANGED <<laserVars,
                                           currentInfiniteLaserStroke,
                                           infiniteLaserCanvas,
                                           infiniteLaserCtx>>
                       /\ IF shape
                          THEN /\ pendingSaves < MaxTimers
                               /\ pendingSaves' = pendingSaves + 1
                          ELSE UNCHANGED pendingSaves
                       \* the shape, then redrawSeparators()
                       /\ infiniteCanvas' =
                              DrawPageSeparators(drawn, CalculateA4Dimensions)
                       /\ infiniteCtx' =
                              SeparatorCtx(shaped, infiniteCanvas,
                                           CalculateA4Dimensions)
       /\ UNCHANGED <<setVars, playerVars, storeVars, surfVars, drawVars,
                      pendingLoads, pendingClears, localStorage, now, painted,
                      innerWidth, innerHeight, pendingRestores, mediaVars, mhVars, callVars>>

\* The context after the notebook was given a new size: reset by the
\* assignment, then drawPageSeparators() and updateStyles()
NbResizedCtx(c, dims) ==
    InfiniteUpdateStyles(SeparatorCtx(DefaultCtx, c, dims), currentTool)

\* checkAndExpand() growing sideways whatever infiniteHorizontal is
ExpandsWideAlways(right) == right > infiniteCanvas.width - ExpandThreshold

\* checkAndExpand(): the test for a horizontal expansion, the right edge of the
\* viewport being at right = scrollLeft + clientWidth
ExpandsWide(right) ==
    infiniteHorizontal /\ right > infiniteCanvas.width - ExpandThreshold

\* checkAndExpand() growing downwards only once the viewport reaches the bottom
ExpandsTallAtEdge(bottom) == bottom >= infiniteCanvas.height

\* checkAndExpand(): the test for a vertical expansion, the bottom edge of the
\* viewport being at bottom = scrollTop + clientHeight
ExpandsTall(bottom) == bottom > infiniteCanvas.height - ExpandThreshold

\* InfiniteCanvas.checkAndExpand(), the scroll listener of the container
CheckAndExpand(right, bottom) ==
    LET dims == CalculateA4Dimensions
        wide == ExpandsWide(right)
        tall == ExpandsTall(bottom)
        newWidth == IF wide THEN infiniteCanvas.width + dims.width
                    ELSE infiniteCanvas.width
        newHeight == IF tall THEN infiniteCanvas.height + dims.height
                     ELSE infiniteCanvas.height
        grown == NbResized(infiniteCanvas, newWidth, newHeight, dims)
    IN /\ newWidth <= MaxNbWidth
       /\ newHeight <= MaxNbHeight
       /\ ev' = Ev("scroll", right, bottom,
                   IF wide /\ tall THEN "both"
                   ELSE IF wide THEN "wide"
                   ELSE IF tall THEN "tall" ELSE "same")
       /\ IF wide \/ tall
          THEN /\ infiniteCanvas' = grown
               /\ infiniteCtx' = NbResizedCtx(grown, dims)
          ELSE UNCHANGED <<infiniteCanvas, infiniteCtx>>
       /\ UNCHANGED <<setVars, playerVars, storeVars, surfVars, drawVars,
                      asyncVars, laserVars, localStorage, now, painted,
                      infiniteDrawing, currentInfiniteLaserStroke,
                      infiniteLaserCanvas, infiniteLaserCtx, innerWidth,
                      innerHeight, pendingRestores, mediaVars, mhVars, callVars>>

\* InfiniteCanvas.handleResize(), the resize listener of the window, when the
\* window now measures sw x sh
HandleResize(sw, sh) ==
    LET dims == A4Dimensions(sw, sh, a4WidthPercent, a4HeightPercent)
        changed == \/ Abs(dims.width - infiniteCanvas.width) > ResizeSlack
                   \/ Abs(dims.height - infiniteCanvas.height) > ResizeSlack
        sized == NbResized(infiniteCanvas, dims.width, dims.height, dims)
    IN /\ innerWidth' = sw
       /\ innerHeight' = sh
       /\ ev' = Ev("nbResize", sw, sh,
                   IF changed THEN "resized" ELSE "same")
       /\ IF changed
          THEN /\ infiniteCanvas' = sized
               /\ infiniteCtx' = NbResizedCtx(sized, dims)
          ELSE UNCHANGED <<infiniteCanvas, infiniteCtx>>
       /\ UNCHANGED <<setVars, playerVars, storeVars, surfVars, drawVars,
                      asyncVars, laserVars, localStorage, now, painted,
                      infiniteDrawing, currentInfiniteLaserStroke,
                      infiniteLaserCanvas, infiniteLaserCtx, pendingRestores, mediaVars, mhVars, callVars>>

\* InfiniteCanvas.clear(), the clear button of the notebook
InfiniteClear ==
    /\ infiniteCanvas' = DrawPageSeparators(NbClearRect(infiniteCanvas),
                                            CalculateA4Dimensions)
    /\ infiniteCtx' = SeparatorCtx(infiniteCtx, infiniteCanvas,
                                   CalculateA4Dimensions)
    /\ ev' = Ev("nbClear", 0, 0, "")
    /\ UNCHANGED <<setVars, playerVars, storeVars, surfVars, drawVars,
                   asyncVars, laserVars, localStorage, now, painted,
                   infiniteDrawing, currentInfiniteLaserStroke,
                   infiniteLaserCanvas, infiniteLaserCtx, innerWidth,
                   innerHeight, pendingRestores, mediaVars, mhVars, callVars>>

\* InfiniteCanvas.toggleHorizontalExpansion()
ToggleHorizontalExpansion ==
    /\ infiniteHorizontal' = ~infiniteHorizontal
    /\ ev' = Ev("toggleHorizontal", 0, 0, "")
    /\ UNCHANGED <<nbVars, mediaVars, mhVars, callVars, playerVars, storeVars, surfVars, drawVars,
                   asyncVars, laserVars, localStorage, now, painted,
                   currentColor, brushSize, fontSize, fontFamily,
                   a4WidthPercent, a4HeightPercent, youtubeUrl>>

\* ------------------------------------------------------------------ uploads
\* A file handed to the upload input.  kind is what file.type selects:
\* "image", "pdf" or "other"; valid says whether its decoder accepts the
\* bytes; numPages and bad describe a PDF: its pages and the page whose
\* getPage or render rejects (0: none).
File(kind, valid, numPages, bad) ==
    [kind |-> kind, valid |-> valid, numPages |-> numPages, bad |-> bad]

FileKinds == {"image", "pdf", "other"}

\* the texts UI.showNotification is given by the upload handlers
UnsupportedNotice == "Please select an image or PDF file"
NoLibraryNotice == "PDF.js library not loaded. Please refresh the page."
LoadFailedNotice == "Failed to load PDF. Please try again."
RenderFailedNotice == "Failed to render PDF pages"
ImageLoadedNotice == "Image loaded"
PdfLoadedNotice == "PDF loaded"

FailureNotices ==
    {UnsupportedNotice, NoLibraryNotice, LoadFailedNotice, RenderFailedNotice}

\* notices: the upload whose step ran last and what it showed, in order
Notices(upload, texts) == [upload |-> upload, texts |-> texts]
NoNotices == Notices(0, <<>>)

\* -------------------------------------------------------------- MediaHandler
\* Sizes and scale factors are kept as fractions <<n, d>> in lowest terms with
\* d > 0; the runs use values the engine's numbers hold exactly.
RECURSIVE Gcd(_, _)
Gcd(a, b) == IF b = 0 THEN a ELSE Gcd(b, a % b)

Rat(n, d) ==
    LET g == Gcd(IF n < 0 THEN -n ELSE n, d)
    IN <<n \div g, d \div g>>

RatTimes(q, r) == Rat(q[1] * r[1], q[2] * r[2])

\* q / r for r > 0
RatOver(q, r) == Rat(q[1] * r[2], q[2] * r[1])

\* Math.max(q, r)
RatMax(q, r) == IF q[1] * r[2] >= r[1] * q[2] THEN q ELSE r

\* value || 200 in addMediaObject()
OrDefaultSize(n) == IF n # 0 THEN n ELSE DefaultMediaSize

\* img.width and img.height of the images of the runs, by the parity of the
\* upload they come from, and viewport.width and viewport.height of the PDF
\* pages
ImageExtents == << <<200, 100>>, <<100, 100>> >>
PageExtent == <<100, 100>>

\* The object addMediaObject(mediaData) builds.  upload and pageNumber stand
\* for its id and its element; its position is left out.
MediaObject(type, upload, pageNumber) ==
    LET extent == IF type = "image"
                  THEN ImageExtents[2 - (upload % 2)] ELSE PageExtent
    IN [type |-> type, upload |-> upload, pageNumber |-> pageNumber,
        width |-> Rat(OrDefaultSize(extent[1]), 1),
        height |-> Rat(OrDefaultSize(extent[2]), 1),
        aspectRatio |-> Rat(OrDefaultSize(extent[1]),
                            OrDefaultSize(extent[2]))]

\* mediaObj.id
MediaId(obj) == <<obj.upload, obj.pageNumber>>

MediaIds == {MediaId(mediaObjects[i]) : i \in 1..Len(mediaObjects)}

\* mediaObjects.findIndex(obj => obj.id === id)
MediaIndex(id) ==
    CHOOSE i \in 1..Len(mediaObjects) : MediaId(mediaObjects[i]) = id

\* updateMediaSize(this.selectedMedia, newWidth, newHeight) with the sizes
\* updateResize() and updatePinchResize() compute from the width start
Resized(start, scaleFactor) ==
    LET k == MediaIndex(Val(selectedMedia))
        newWidth == RatMax(Rat(MinMediaWidth, 1), RatTimes(start, scaleFactor))
        newHeight == RatOver(newWidth, mediaObjects[k].aspectRatio)
    IN [mediaObjects EXCEPT ![k].width = newWidth, ![k].height = newHeight]

\* MediaHandler.addMediaObject(): mediaObjects.push(mediaObj)
AddMediaObject(type, upload, pageNumber) ==
    Append(mediaObjects, MediaObject(type, upload, pageNumber))

\* an upload in flight: stage "decode" awaits the reader and the decoder,
\* stage "page" awaits getPage(pageNum) and render of the document awaited
Upload(id, file, stage, pageNum, awaited) ==
    [id |-> id, file |-> file, stage |-> stage, pageNum |-> pageNum,
     awaited |-> awaited]

\* handleFileUpload(event) with a file, and the synchronous part of loadImage
\* or loadPDF; lib says whether pdfjsLib is defined
HandleFileUpload(file, lib) ==
    /\ uploadCount < MaxUploads
    /\ uploadCount' = uploadCount + 1
    /\ \E id \in {uploadCount + 1} :
          /\ IF file.kind = "image" \/ (file.kind = "pdf" /\ lib)
             THEN /\ uploads' =
                        Append(uploads, Upload(id, file, "decode", 0, file))
                  /\ notices' = Notices(id, <<>>)
             ELSE /\ UNCHANGED uploads
                  /\ notices' =
                        Notices(id, IF file.kind = "pdf"
                                    THEN <<NoLibraryNotice>>
                                    ELSE <<UnsupportedNotice>>)
          /\ ev' = Ev("handleFileUpload", id, 0, file.kind)
    /\ UNCHANGED <<mhVars, callVars, mediaObjects, currentPDF, totalPages, setVars, nbVars,
                   playerVars, storeVars, surfVars, drawVars, asyncVars,
                   laserVars, localStorage, now, painted>>

\* reader.onload and img.onload of loadImage.  An image that does not decode
\* fires error, which has no listener.  expands says whether the call of
\* expandCanvasIfNeeded returns: script.js calls the method and does not
\* define it, and the statements after a call that throws do not run.
ImageLoad(j, expands) ==
    /\ j \in 1..Len(uploads)
    /\ uploads[j].file.kind = "image"
    /\ uploads[j].stage = "decode"
    /\ LET up == uploads[j]
           done == up.file.valid /\ expands
       IN /\ uploads' = RemoveAt(uploads, j)
          /\ mediaObjects' = IF up.file.valid
                             THEN AddMediaObject("image", up.id, 0)
                             ELSE mediaObjects
          /\ currentPDF' = IF done THEN Null ELSE currentPDF
          /\ totalPages' = IF done THEN 1 ELSE totalPages
          /\ notices' =
                 Notices(up.id, IF done THEN <<ImageLoadedNotice>> ELSE <<>>)
          /\ pendingSaves' = IF done THEN pendingSaves + 1 ELSE pendingSaves
          /\ ev' = Ev("loadImage", up.id, 0,
                      IF done THEN "loaded"
                      ELSE IF up.file.valid THEN "threw" ELSE "error")
    /\ UNCHANGED <<mhVars, callVars, uploadCount, setVars, nbVars, playerVars, storeVars,
                   surfVars, drawVars, pendingLoads, pendingClears, laserVars,
                   localStorage, now, painted>>

\* reader.onload of loadPDF up to the first getPage renderAllPDFPages awaits:
\* getDocument rejects bytes that are no PDF, and the catch of loadPDF reports
\* it
PdfLoad(j) ==
    /\ j \in 1..Len(uploads)
    /\ uploads[j].file.kind = "pdf"
    /\ uploads[j].stage = "decode"
    /\ LET up == uploads[j]
       IN IF up.file.valid
          THEN /\ currentPDF' = Some(up.file)
               /\ totalPages' = up.file.numPages
               /\ uploads' = [uploads EXCEPT
                                 ![j] = Upload(up.id, up.file, "page", 1,
                                               up.file)]
               /\ notices' = Notices(up.id, <<>>)
               /\ ev' = Ev("loadPDF", up.id, up.file.numPages, "decoded")
          ELSE /\ uploads' = RemoveAt(uploads, j)
               /\ notices' = Notices(up.id, <<LoadFailedNotice>>)
               /\ ev' = Ev("loadPDF", up.id, 0, "failed")
               /\ UNCHANGED <<currentPDF, totalPages>>
    /\ UNCHANGED <<mhVars, callVars, mediaObjects, uploadCount, setVars, nbVars, playerVars,
                   storeVars, surfVars, drawVars, asyncVars, laserVars,
                   localStorage, now, painted>>

\* renderAllPDFPages() from the page it awaits to the next await or to its
\* end, and then the rest of reader.onload of loadPDF.  The loop reads
\* AppState.totalPages and AppState.currentPDF anew for every page.  Whatever
\* throws inside the try is caught and reported by renderAllPDFPages, which
\* then returns to loadPDF as if it had finished.
RenderPage(j, expands) ==
    /\ j \in 1..Len(uploads)
    /\ uploads[j].stage = "page"
    /\ LET up == uploads[j]
           pageNum == up.pageNum
           rendered == up.awaited.bad # pageNum
           more == rendered /\ pageNum + 1 <= totalPages
           awaiting == more /\ currentPDF # Null
           threw == \/ ~rendered
                    \/ more /\ currentPDF = Null
                    \/ rendered /\ ~more /\ ~expands
       IN /\ mediaObjects' = IF rendered
                             THEN AddMediaObject("pdf-page", up.id, pageNum)
                             ELSE mediaObjects
          /\ IF awaiting
             THEN /\ uploads' = [uploads EXCEPT
                                    ![j] = Upload(up.id, up.file, "page",
                                                  pageNum + 1, Val(currentPDF))]
                  /\ notices' = Notices(up.id, <<>>)
                  /\ ev' = Ev("renderAllPDFPages", up.id, pageNum, "page")
                  /\ UNCHANGED <<currentPDF, totalPages, pendingSaves>>
             ELSE /\ uploads' = RemoveAt(uploads, j)
                  /\ notices' =
                         Notices(up.id,
                                 (IF threw THEN <<RenderFailedNotice>>
                                  ELSE <<>>) \o <<PdfLoadedNotice>>)
                  /\ currentPDF' = Null
                  /\ totalPages' = 1
                  /\ pendingSaves' = pendingSaves + 1
                  /\ ev' = Ev("renderAllPDFPages", up.id, pageNum,
                              IF threw THEN "failed" ELSE "rendered")
    /\ UNCHANGED <<mhVars, callVars, uploadCount, setVars, nbVars, playerVars, storeVars,
                   surfVars, drawVars, pendingLoads, pendingClears, laserVars,
                   localStorage, now, painted>>

\* ------------------------------------------------------- setup and restore
\* input on the colour picker: the value is assigned, then updateStyles()
SetColor(c) ==
    /\ currentColor' = JsStr(c)
    /\ ctx' = IF drawingMode THEN ctx ELSE UpdateStyles(ctx, currentTool)
    /\ overlayCtx' = IF drawingMode THEN UpdateStyles(overlayCtx, currentTool)
                     ELSE overlayCtx
    /\ ev' = Ev("setColor", 0, 0, c)
    /\ UNCHANGED <<nbVars, mediaVars, mhVars, callVars, playerVars, storeVars, canvas, overlayCanvas,
                   drawVars, asyncVars, laserVars, localStorage, now, painted,
                   brushSize, fontSize, fontFamily, infiniteHorizontal,
                   a4WidthPercent, a4HeightPercent, youtubeUrl>>

\* input on the brush size slider: e.target.value is a string
SetBrushSize(v) ==
    /\ brushSize' = JsStr(v)
    /\ ctx' = IF drawingMode THEN ctx ELSE UpdateStyles(ctx, currentTool)
    /\ overlayCtx' = IF drawingMode THEN UpdateStyles(overlayCtx, currentTool)
                     ELSE overlayCtx
    /\ ev' = Ev("setBrushSize", 0, 0, v)
    /\ UNCHANGED <<nbVars, mediaVars, mhVars, callVars, playerVars, storeVars, canvas, overlayCanvas,
                   drawVars, asyncVars, laserVars, localStorage, now, painted,
                   currentColor, fontSize, fontFamily, infiniteHorizontal,
                   a4WidthPercent, a4HeightPercent, youtubeUrl>>

\* input on the font size slider
SetFontSize(v) ==
    /\ fontSize' = JsStr(v)
    /\ ev' = Ev("setFontSize", 0, 0, v)
    /\ UNCHANGED <<nbVars, mediaVars, mhVars, callVars, playerVars, storeVars, surfVars, drawVars,
                   asyncVars, laserVars, localStorage, now, painted,
                   currentColor, brushSize, fontFamily, infiniteHorizontal,
                   a4WidthPercent, a4HeightPercent, youtubeUrl>>

\* change on the font family select
SetFontFamily(f) ==
    /\ fontFamily' = JsStr(f)
    /\ ev' = Ev("setFontFamily", 0, 0, f)
    /\ UNCHANGED <<nbVars, mediaVars, mhVars, callVars, playerVars, storeVars, surfVars, drawVars,
                   asyncVars, laserVars, localStorage, now, painted,
                   currentColor, brushSize, fontSize, infiniteHorizontal,
                   a4WidthPercent, a4HeightPercent, youtubeUrl>>

\* The user types a URL into the youtubeUrl input
TypeUrl(u) ==
    /\ youtubeUrl' = u
    /\ ev' = Ev("typeUrl", 0, 0, u)
    /\ UNCHANGED <<nbVars, mediaVars, mhVars, callVars, playerVars, storeVars, surfVars, drawVars,
                   asyncVars, laserVars, localStorage, now, painted,
                   currentColor, brushSize, fontSize, fontFamily,
                   infiniteHorizontal, a4WidthPercent, a4HeightPercent>>

\* click on the manual save button, or the 30 s interval of startAutoSave()
\* The callback of the 30 s interval of startAutoSave(), and its
\* visibilitychange listener: saveData().  The handle of the interval is not
\* kept, so nothing clears it.
PeriodicSave(ok) ==
    /\ localStorage' = SaveData(timestampedDrawings, canvas, ok)
    /\ ev' = Ev("periodicSave", 0, 0, IF ok THEN "saved" ELSE "failed")
    /\ saveReturned' = Some(ok)
    /\ UNCHANGED <<nbVars, mediaVars, mhVars, separatorLoop, setVars,
                   playerVars, storeVars, surfVars, drawVars, asyncVars,
                   laserVars, now, painted>>

ManualSave(ok) ==
    /\ localStorage' = SaveData(timestampedDrawings, canvas, ok)
    /\ ev' = Ev("manualSave", 0, 0, IF ok THEN "saved" ELSE "failed")
    /\ saveReturned' = Some(ok)
    /\ UNCHANGED <<nbVars, mediaVars, mhVars, separatorLoop, setVars, playerVars, storeVars, surfVars, drawVars,
                   asyncVars, laserVars, now, painted>>

\* The notebook InfiniteCanvas.init() leaves in a window of sw x sh: one page
\* of the default percentages, separators drawn
FreshNotebook(sw, sh) ==
    LET dims == A4Dimensions(sw, sh, DefaultA4WidthPercent,
                             DefaultA4HeightPercent)
    IN DrawPageSeparators(NbBitmap(dims.width, dims.height), dims)

FreshNotebookCtx(sw, sh) ==
    LET dims == A4Dimensions(sw, sh, DefaultA4WidthPercent,
                             DefaultA4HeightPercent)
    IN SeparatorCtx(InfiniteUpdateStyles(DefaultCtx, "pencil"),
                    NbBitmap(dims.width, dims.height), dims)

\* A timer restoreData() has set
Timer(fn, data) == [fn |-> fn, data |-> data]

\* The timers restoreData(data) leaves, in the order they fire:
\* restoreCanvasDrawings after 500 ms, loadVideo after 1000 ms
RestoreTimers(data) ==
    <<Timer("restoreCanvasDrawings", data)>>
        \o (IF Truthy(data.videoUrl) THEN <<Timer("loadVideo", data)>>
            ELSE <<>>)

\* The script is loaded on a fresh page whose surfaces measure w x h, and
\* init() runs restoreData(loaded) when loadData() returned a data object
Restart(w, h, loaded) ==
    LET has == loaded # Null
        data == Val(loaded)
    IN /\ player' = FALSE
       /\ playerReady' = FALSE
       /\ timeUpdateInterval' = Null
       /\ intervals' = {}
       /\ playerState' = "none"
       /\ timestampedDrawings' =
              IF has /\ data.isArray THEN data.timestampedDrawings ELSE <<>>
       /\ timestampList' =
              IF has /\ data.isArray THEN UpdateUI(data.timestampedDrawings)
              ELSE <<>>
       /\ currentTimestamp' = Null
       /\ currentDrawingState' = Null
       /\ canvas' = NewBitmap(w, h)
       /\ ctx' = UpdateStyles(DefaultCtx, "pencil")
       /\ overlayCanvas' = NewBitmap(w, h)
       /\ overlayCtx' = DefaultCtx
       /\ isDrawing' = FALSE
       /\ drawingMode' = FALSE
       /\ currentTool' = "pencil"
       /\ startX' = 0
       /\ startY' = 0
       /\ pendingLoads' = <<>>
       /\ pendingClears' = 0
       /\ pendingSaves' = 0
       /\ laserStrokes' = <<>>
       /\ laserAnimationId' = Null
       /\ currentLaserStroke' = Null
       /\ rafPending' = 0
       /\ painted' = Null
       /\ infiniteCanvas' = FreshNotebook(innerWidth, innerHeight)
       /\ infiniteCtx' = FreshNotebookCtx(innerWidth, innerHeight)
       /\ infiniteDrawing' = FALSE
       /\ currentInfiniteLaserStroke' = Null
       /\ infiniteLaserCanvas' = Null
       /\ infiniteLaserCtx' = Null
       /\ currentColor' = IF has THEN Restored(JsStr("#ff0000"), data.currentColor)
                          ELSE JsStr("#ff0000")
       /\ brushSize' = IF has THEN Restored(JsNum(DefaultBrushSize), data.brushSize)
                       ELSE JsNum(DefaultBrushSize)
       /\ fontSize' = IF has THEN Restored(JsNum(DefaultFontSize), data.fontSize)
                      ELSE JsNum(DefaultFontSize)
       /\ fontFamily' = IF has THEN Restored(JsStr("Arial"), data.fontFamily)
                        ELSE JsStr("Arial")
       /\ infiniteHorizontal' =
              IF has /\ data.infiniteHorizontal.type = "boolean"
              THEN data.infiniteHorizontal.bool ELSE FALSE
       /\ a4WidthPercent' =
              IF has
              THEN Restored(JsNum(DefaultA4WidthPercent), data.a4WidthPercent).num
              ELSE DefaultA4WidthPercent
       /\ a4HeightPercent' =
              IF has
              THEN Restored(JsNum(DefaultA4HeightPercent), data.a4HeightPercent).num
              ELSE DefaultA4HeightPercent
       /\ youtubeUrl' = IF has THEN Restored(JsStr(""), data.videoUrl).str ELSE ""
       /\ pendingRestores' = IF has THEN RestoreTimers(data) ELSE <<>>
       /\ mediaObjects' = <<>>
       /\ currentPDF' = Null
       /\ totalPages' = 1
       /\ uploads' = <<>>
       /\ uploadCount' = 0
       /\ notices' = NoNotices
       /\ selectedMedia' = Null
       /\ isDragging' = FALSE
       /\ isResizing' = FALSE
       /\ dragStartPos' = Null
       /\ resizeStartPos' = Null
       /\ resizeStartSize' = Null
       /\ initialPinchDistance' = Null
       /\ initialSize' = Null
       /\ resizeFrom' = {}
       /\ saveReturned' = Null
       /\ separatorLoop' = Null

\* The page is reloaded: the beforeunload listener runs saveData(), then the
\* script is loaded again and init() runs loadData() and restoreData()
Reload(w, h, ok) ==
    /\ localStorage' = SaveData(timestampedDrawings, canvas, ok)
    /\ \E loaded \in {LoadDataFrom(localStorage')} : Restart(w, h, loaded)
    /\ ev' = Ev("reload", 0, 0, IF ok THEN "saved" ELSE "failed")
    /\ UNCHANGED <<now, innerWidth, innerHeight>>

\* restoreCanvasDrawings(data), the callback of the 500 ms timer
RestoreCanvasDrawings ==
    LET data == Head(pendingRestores).data
        main == Truthy(data.mainCanvasData)
        nb == Truthy(data.infiniteCanvasData)
        sized == nb /\ Truthy(data.infiniteCanvasWidth)
                    /\ Truthy(data.infiniteCanvasHeight)
    IN /\ pendingRestores # <<>>
       /\ Head(pendingRestores).fn = "restoreCanvasDrawings"
       /\ IF main
          THEN /\ Len(pendingLoads) < MaxLoads
               /\ pendingLoads' = Append(pendingLoads, data.mainCanvasData.url)
          ELSE UNCHANGED pendingLoads
       /\ IF sized
          THEN /\ infiniteCanvas' = NbBitmap(data.infiniteCanvasWidth.num,
                                            data.infiniteCanvasHeight.num)
               /\ infiniteCtx' = DefaultCtx
          ELSE UNCHANGED <<infiniteCanvas, infiniteCtx>>
       /\ pendingRestores' =
              (IF nb THEN <<Timer("infiniteImage", data)>> ELSE <<>>)
                  \o Tail(pendingRestores)
       /\ ev' = Ev("restoreCanvasDrawings", 0, 0, "")
       /\ UNCHANGED <<setVars, mediaVars, mhVars, callVars, playerVars, storeVars, surfVars, drawVars,
                      pendingClears, pendingSaves, laserVars, localStorage,
                      now, painted, infiniteDrawing,
                      currentInfiniteLaserStroke, infiniteLaserCanvas,
                      infiniteLaserCtx, innerWidth, innerHeight>>

\* infiniteCtx.drawImage(img, 0, 0)
NbDrawImage(c, gco, img) ==
    [c EXCEPT !.px = [p \in DOMAIN c.px |->
                        IF p \in DOMAIN img.px
                        THEN Composite(gco, img.px[p], c.px[p]) ELSE c.px[p]],
              !.guides = IF gco = "destination-out"
                         THEN @ \ (img.guides \cup
                                   {p \in DOMAIN img.px : img.px[p] # "none"})
                         ELSE @ \cup (img.guides \cap DOMAIN c.px)]

\* onload of the image restoreCanvasDrawings() creates for the notebook
InfiniteImageLoaded ==
    LET img == Head(pendingRestores).data.infiniteCanvasData.url
        drawn == NbDrawImage(NbClearRect(infiniteCanvas), infiniteCtx.gco, img)
    IN /\ pendingRestores # <<>>
       /\ Head(pendingRestores).fn = "infiniteImage"
       /\ pendingRestores' = Tail(pendingRestores)
       /\ infiniteCanvas' = DrawPageSeparators(drawn, CalculateA4Dimensions)
       /\ infiniteCtx' = SeparatorCtx(infiniteCtx, infiniteCanvas,
                                      CalculateA4Dimensions)
       /\ ev' = Ev("infiniteImageLoaded", 0, 0, "")
       /\ UNCHANGED <<setVars, mediaVars, mhVars, callVars, playerVars, storeVars, surfVars, drawVars,
                      asyncVars, laserVars, localStorage, now, painted,
                      infiniteDrawing, currentInfiniteLaserStroke,
                      infiniteLaserCanvas, infiniteLaserCtx, innerWidth,
                      innerHeight>>

\* YouTubeManager.loadVideo(), the callback of the 1000 ms timer
RestoredLoadVideo ==
    /\ pendingRestores # <<>>
    /\ Head(pendingRestores).fn = "loadVideo"
    /\ pendingRestores' = Tail(pendingRestores)
    /\ player' = TRUE
    /\ playerState' = IF player THEN playerState ELSE "unstarted"
    /\ canvas' = ClearedCanvas
    /\ overlayCanvas' = ClearedOverlay
    /\ currentDrawingState' = Null
    /\ ev' = Ev("loadVideo", 0, 0, "restored")
    /\ UNCHANGED <<setVars, mediaVars, mhVars, callVars, playerReady, timeUpdateInterval, intervals,
                   timestampedDrawings, timestampList, currentTimestamp, ctx, overlayCtx,
                   drawVars, asyncVars, laserVars, localStorage, now, painted,
                   infiniteCanvas, infiniteCtx, infiniteDrawing,
                   currentInfiniteLaserStroke, infiniteLaserCanvas,
                   infiniteLaserCtx, innerWidth, innerHeight>>

\* ------------------------------------------------------------------- Init
\* The window the page is opened in, sw x sh px
InitialWindow == <<200, 200>>

\* InfiniteCanvas.init() in a window of sw x sh: one page, styles, separators
InitNotebook(sw, sh) ==
    /\ innerWidth = sw
    /\ innerHeight = sh
    /\ infiniteCanvas = FreshNotebook(sw, sh)
    /\ infiniteCtx = FreshNotebookCtx(sw, sh)
    /\ infiniteDrawing = FALSE
    /\ currentInfiniteLaserStroke = Null
    /\ infiniteLaserCanvas = Null
    /\ infiniteLaserCtx = Null

\* The settings of AppState when the script is loaded
InitSettings ==
    /\ currentColor = JsStr("#ff0000")
    /\ brushSize = JsNum(DefaultBrushSize)
    /\ fontSize = JsNum(DefaultFontSize)
    /\ fontFamily = JsStr("Arial")
    /\ infiniteHorizontal = FALSE
    /\ a4WidthPercent = DefaultA4WidthPercent
    /\ a4HeightPercent = DefaultA4HeightPercent

\* The state init() leaves, the video surfaces measuring w x h: no player,
\* empty store, pencil selected
InitSized(w, h) ==
    /\ player = FALSE
    /\ playerReady = FALSE
    /\ timeUpdateInterval = Null
    /\ intervals = {}
    /\ playerState = "none"
    /\ timestampedDrawings = <<>>
    /\ timestampList = <<>>
    /\ currentTimestamp = Null
    /\ currentDrawingState = Null
    /\ canvas = NewBitmap(w, h)
    /\ ctx = UpdateStyles(DefaultCtx, "pencil")
    /\ overlayCanvas = NewBitmap(w, h)
    /\ overlayCtx = DefaultCtx
    /\ isDrawing = FALSE
    /\ drawingMode = FALSE
    /\ currentTool = "pencil"
    /\ startX = 0
    /\ startY = 0
    /\ pendingLoads = <<>>
    /\ pendingClears = 0
    /\ pendingSaves = 0
    /\ laserStrokes = <<>>
    /\ laserAnimationId = Null
    /\ currentLaserStroke = Null
    /\ rafPending = 0
    /\ localStorage = Null
    /\ now = 0
    /\ ev = Ev("init", 0, 0, "")
    /\ painted = Null
    /\ InitNotebook(InitialWindow[1], InitialWindow[2])
    /\ InitSettings
    /\ youtubeUrl = ""
    /\ pendingRestores = <<>>
    /\ mediaObjects = <<>>
    /\ currentPDF = Null
    /\ totalPages = 1
    /\ uploads = <<>>
    /\ uploadCount = 0
    /\ notices = NoNotices
    /\ selectedMedia = Null
    /\ isDragging = FALSE
    /\ isResizing = FALSE
    /\ dragStartPos = Null
    /\ resizeStartPos = Null
    /\ resizeStartSize = Null
    /\ initialPinchDistance = Null
    /\ initialSize = Null
    /\ resizeFrom = {}
    /\ saveReturned = Null
    /\ separatorLoop = Null

Ids == {timestampedDrawings[i].id : i \in 1..Len(timestampedDrawings)}

\* ------------------------------------------------ the timestamp store runs
\* The video surfaces measure one pixel; the pointer paints it with the pencil.
Init == InitSized(1, 1)

NextStore ==
    \/ LoadVideo
    \/ OnStateChange("playing")
    \/ \E t \in Times : Save(t, TRUE)
    \/ DeferredClear
    \/ \E id \in Ids : Delete(id, TRUE)
    \/ \E t \in Times : Tick(t)
    \/ \E k \in 1..MaxLoads : ImageLoaded(k)
    \/ ClockAdvance(1, MaxNow)

Spec == Init /\ [][NextStore]_vars

\* The index of the entry with the greatest time <= t, 0 when there is none
GreatestAtOrBefore(TD, t) ==
    LET at == {i \in 1..Len(TD) : TD[i].time <= t}
    IN IF at = {} THEN 0
       ELSE CHOOSE i \in at : \A j \in at : TD[j].time <= TD[i].time

\* C1: the lookup of a video-time tick at time t selects the entry with the
\* greatest time <= t, and none when the store is empty or t is before the
\* smallest saved time.
C1_TickSelectsGreatest ==
    ev.op = "tick" => ev.b = GreatestAtOrBefore(timestampedDrawings, ev.a)

\* C2 as stated: of two consecutive saves, less than 1 second apart the second
\* updates the entry the first created or updated and no entry is added; more
\* than 1 second apart they touch two distinct entries.
C2_TwoSavesAnyStore ==
    [][(ev.op = "save" /\ ev.k # "noplayer" /\ ev'.op = "save")
        => /\ Abs(ev.a - ev'.a) < Sec
                => (Len(timestampedDrawings') = Len(timestampedDrawings)
                    /\ ev'.b = ev.b)
           /\ Abs(ev.a - ev'.a) > Sec => ev'.b # ev.b]_vars

\* No entry other than entry i lies within 1 second of t
NoOtherNear(TD, i, t) ==
    \A j \in 1..Len(TD) : j # i => Abs(TD[j].time - t) >= Sec

\* C2 amended: when the first save created its entry and no other entry lies
\* within 1 second of the second save's time, the second save updates that
\* entry if the times are less than 1 second apart and creates a second,
\* distinct entry if they are more than 1 second apart.
C2_TwoSavesFreshTimes ==
    [][(/\ ev.op = "save" /\ ev.k = "created" /\ ev'.op = "save"
        /\ NoOtherNear(timestampedDrawings, ev.b, ev'.a))
        => /\ Abs(ev.a - ev'.a) < Sec
                => /\ Len(timestampedDrawings') = Len(timestampedDrawings)
                   /\ ev'.b = ev.b
                   /\ ev'.k = "updated"
                   /\ timestampedDrawings'[ev.b].time = ev.a
           /\ Abs(ev.a - ev'.a) > Sec
                => /\ Len(timestampedDrawings') = Len(timestampedDrawings) + 1
                   /\ ev'.b # ev.b
                   /\ ev'.k = "created"]_vars

\* A save has coalesced onto the only entry, which an earlier save created at
\* another time
C2_Witness ==
    /\ ev.op = "save" /\ ev.k = "updated"
    /\ Len(timestampedDrawings) = 1
    /\ timestampedDrawings[1].time # ev.a

\* C3: after any sequence of saves and deletes, no two entries of the store
\* have times less than 1 second apart.
C3_EntriesOneSecondApart ==
    \A i, j \in 1..Len(timestampedDrawings) :
        i # j => Abs(timestampedDrawings[i].time - timestampedDrawings[j].time) >= Sec

\* A delete has left at least two entries in the store
C3_Witness ==
    /\ ev.op = "delete"
    /\ Len(timestampedDrawings) >= 2


\* ------------------------------------------------- the snapshot display runs
\* Saves and ticks at 0s and 1s; the pencil paints the one pixel of the
\* persistent surface through the overlay's listeners, which receive events
\* while drawing mode shows the overlay.
ShowTimes == {0, Sec}

NextShow ==
    \/ LoadVideo
    \/ \E s \in PlayerStates : OnStateChange(s)
    \/ \E t \in ShowTimes : Save(t, TRUE)
    \/ DeferredClear
    \/ \E t \in ShowTimes : Tick(t)
    \/ \E t \in ShowTimes : JumpTo(t)
    \/ \E i \in 1..MaxEntries : LoadOnly(i)
    \/ \E k \in 1..MaxLoads : ImageLoaded(k)
    \/ OpenDrawingMode
    \/ drawingMode /\ CloseDrawingMode
    \/ drawingMode /\ Start(FALSE, 1, 1)
    \/ drawingMode /\ Draw(FALSE, 1, 1)
    \/ drawingMode /\ Stop("mouseup", 1, 1)
    \/ ClearCanvas

SpecShow == Init /\ [][NextShow]_vars

\* C4: in the states that follow a save, a tick that selects an entry while no
\* snapshot load is in flight leaves the persistent surface showing the
\* selected entry's snapshot.  The tick taken here is the one right after the
\* deferred clear of the save, when nothing has been painted since.
C4_TickShowsSnapshot ==
    [][(/\ ev.op = "deferredClear" /\ ev'.op = "tick" /\ ev'.b # 0
        /\ pendingLoads' = <<>>)
        => canvas'.px = timestampedDrawings'[ev'.b].drawingData.px]_vars

\* C5: a tick that finds no entry while currentTimestamp is non-null clears
\* the persistent surface and sets currentTimestamp to null, with drawing
\* mode on or off.
C5_TickClearsPersistent ==
    [][(ev'.op = "tick" /\ ev'.k = "fired" /\ ev'.b = 0
        /\ currentTimestamp # Null)
        => (IsBlank(canvas') /\ currentTimestamp' = Null)]_vars


\* ------------------------------------------------------ the shape tool runs
\* Client positions of the pointer: the column left of the surface (clientX
\* 0) and its first two columns, in its first row.  A run commits at most
\* MaxTimers shapes.
ClientPoints == (0..2) \X {1}

StopKinds == {"mouseup", "mouseout", "touchend"}

InitShape == InitSized(MaxW, MaxH)

NextShape ==
    \/ OpenDrawingMode
    \/ \E tool \in ShapeTools : drawingMode /\ SelectTool(tool)
    \/ \E bound \in BOOLEAN, c \in ClientPoints :
          drawingMode /\ currentTool \in ShapeTools /\ Start(bound, c[1], c[2])
    \/ \E bound \in BOOLEAN, c \in ClientPoints :
          drawingMode /\ Draw(bound, c[1], c[2])
    \/ \E kind \in StopKinds, c \in ClientPoints :
          drawingMode /\ Stop(kind, c[1], c[2])

SpecShape == InitShape /\ [][NextShape]_vars

\* The position on the surface of the client position recorded in e
PosOf(e) == <<e.a - BoundingRect.left, e.b - BoundingRect.top>>

\* C7: every pointer-up (mouse up, mouse out, touch end) that ends a shape
\* stroke at a position inside the viewport issues the shape call from the
\* stroke start to the release point on the persistent surface, paints it
\* there and leaves the overlay empty.
C7_PointerUpCommits ==
    [][(/\ ev'.op = "stop" /\ isDrawing /\ currentTool \in ShapeTools
        /\ ev'.a # 0 /\ ev'.b # 0)
        => /\ IsBlank(overlayCanvas')
           /\ painted' = Some(ShapeCall(currentTool, <<startX, startY>>,
                                        PosOf(ev')))
           /\ canvas' = Paint(canvas, "source-over", "ink",
                              ShapePix(currentTool, <<startX, startY>>,
                                       PosOf(ev')))]_vars

\* C8: while the pointer is down with a shape tool, every pointer move at a
\* position inside the viewport leaves the persistent surface unchanged and
\* repaints the overlay: a pixel of the preview shape is painted, every other
\* pixel is the pixel of the persistent surface.
C8_MoveRepaintsOverlay ==
    [][(/\ ev'.op = "draw" /\ isDrawing /\ currentTool \in ShapeTools
        /\ ev'.a # 0 /\ ev'.b # 0)
        => /\ canvas' = canvas
           /\ \A p \in DOMAIN overlayCanvas'.px :
                IF p \in ShapePix(currentTool, <<startX, startY>>, PosOf(ev'))
                THEN overlayCanvas'.px[p] # "none"
                ELSE overlayCanvas'.px[p] = canvas.px[p]]_vars

\* ----------------------------------------------------------- the resize runs
\* The pencil and the eraser paint the persistent surface; the container is
\* measured at every size up to MaxW x MaxH, the empty sizes included.
GridPoints == (1..MaxW) \X (1..MaxH)

NextResize ==
    \/ OpenDrawingMode
    \/ drawingMode /\ CloseDrawingMode
    \/ \E tool \in {"pencil", "eraser"} : SelectTool(tool)
    \/ \E c \in GridPoints : drawingMode /\ Start(TRUE, c[1], c[2])
    \/ \E c \in GridPoints : drawingMode /\ Draw(TRUE, c[1], c[2])
    \/ \E c \in GridPoints : drawingMode /\ Stop("mouseup", c[1], c[2])
    \/ \E w \in 0..MaxW, h \in 0..MaxH : Resize(w, h)
    \/ LoadVideo
    \/ \E w \in 0..MaxW, h \in 0..MaxH : OnReady(w, h)

SpecResize == InitShape /\ [][NextResize]_vars

\* C6: every resize leaves each pixel of the persistent surface that lies
\* within the new bounds as it was, at the same coordinates, and a resize that
\* goes through gives the surface the measured size.
C6_ResizeRetainsPixels ==
    [][(ev'.op \in {"resize", "ready"})
        => /\ \A p \in DOMAIN canvas.px \cap DOMAIN canvas'.px :
                canvas'.px[p] = canvas.px[p]
           /\ ev'.k = "done" =>
                DOMAIN canvas'.px = Coords(ev'.a, ev'.b)]_vars

\* A resize has narrowed a painted surface and a painted pixel is still there
C6_Witness ==
    /\ ev.op = "resize" /\ ev.k = "done"
    /\ canvas.width < MaxW /\ canvas.width > 0
    /\ \E p \in DOMAIN canvas.px : canvas.px[p] = "ink"


\* ------------------------------------------------------------ the laser runs
\* The laser is drawn through the overlay's touch listeners on a surface of
\* one pixel; frames of the fade loop run Quantum or 2 * Quantum after the
\* previous event, and the clock advances by itself while no loop runs.
FrameGaps == {Quantum, 2 * Quantum}

NextLaser ==
    \/ OpenDrawingMode
    \/ SelectTool("laser")
    \/ drawingMode /\ currentTool = "laser" /\ Start(TRUE, 1, 1)
    \/ drawingMode /\ currentTool = "laser" /\ Draw(TRUE, 1, 1)
    \/ drawingMode /\ currentTool = "laser" /\ Stop("mouseup", 1, 1)
    \/ \E dt \in FrameGaps : AnimateFrame(dt)
    \/ rafPending = 0 /\ ClockAdvance(Quantum, MaxClock)

SpecLaser == Init /\ [][NextLaser]_vars

\* The opacity, in units of 1 / FadeMs, a stroke added at s.createdAt is due at
\* a tick at time t
DueOpacity(s, t) ==
    IF t < s.createdAt + HoldMs THEN FadeMs
    ELSE Max(0, FadeMs - (t - (s.createdAt + HoldMs)))

\* The number of strokes among the first i that are due to stay at time t
DueBefore(S, i, t) == Cardinality({j \in 1..i : DueOpacity(S[j], t) > 0})

C10_OneLoopIffStrokes ==
    /\ (laserAnimationId # Null) <=> (laserStrokes # <<>>)
    /\ rafPending <= 1
    /\ (rafPending = 1) <=> (laserAnimationId # Null)

\* A second stroke has been added while the loop of the first one is running
C10_Witness ==
    /\ ev.op = "stop"
    /\ Len(laserStrokes) = 2
    /\ rafPending = 1
    /\ laserStrokes[1].opacity < FadeMs


\* ------------------------------------------------- the laser runs with frames
\* requestAnimationFrame runs every queued frame: a frame that stays queued is
\* eventually run.  Strokes are added up to LastStrokeTime, early enough for
\* their fade to end before the clock of the run stops.
LastStrokeTime == MaxClock - HoldMs - FadeMs - 2 * Quantum

NextLaserFrames ==
    \/ OpenDrawingMode
    \/ SelectTool("laser")
    \/ drawingMode /\ currentTool = "laser" /\ Start(TRUE, 1, 1)
    \/ drawingMode /\ currentTool = "laser" /\ Draw(TRUE, 1, 1)
    \/ /\ drawingMode /\ currentTool = "laser" /\ now <= LastStrokeTime
       /\ Stop("mouseup", 1, 1)
    \/ \E dt \in FrameGaps : AnimateFrame(dt)
    \/ rafPending = 0 /\ ClockAdvance(Quantum, MaxClock)

SpecLaserFrames ==
    /\ Init
    /\ [][NextLaserFrames]_vars
    /\ WF_vars(\E dt \in FrameGaps : AnimateFrame(dt))

\* C11: while frames keep firing and time advances, every tracked laser stroke
\* is eventually removed and the fade loop stops with no frame pending.
C11_FadeLoopTerminates ==
    (laserStrokes # <<>>)
        ~> (laserStrokes = <<>> /\ laserAnimationId = Null /\ rafPending = 0)

\* The frame that removed the last stroke, a full hold and fade after the
\* first frame could run, has stopped the loop
C11_Witness ==
    /\ ev.op = "animate"
    /\ now >= HoldMs + FadeMs
    /\ laserStrokes = <<>>
    /\ laserAnimationId = Null
    /\ rafPending = 0


\* ------------------------------------------------ the laser runs on the notebook
\* The laser is drawn on the notebook, the pointer staying at one position; a
\* stroke ends by mouse up, mouse out or touch end.
NbClientPoint == <<51, 51>>

NoLaserInk(c) == \A p \in DOMAIN c.px : c.px[p] # "laser"

NextFade ==
    \/ SelectTool("laser")
    \/ /\ currentTool = "laser"
       /\ InfiniteStartDrawing("mousedown", NbClientPoint[1], NbClientPoint[2])
    \/ /\ currentTool = "laser"
       /\ InfiniteDraw("mousemove", NbClientPoint[1], NbClientPoint[2])
    \/ \E kind \in StopKinds :
          /\ currentTool = "laser"
          /\ InfiniteStopDrawing(kind, NbClientPoint[1], NbClientPoint[2])
    \/ \E dt \in FrameGaps : AnimateFrame(dt)
    \/ rafPending = 0 /\ ClockAdvance(Quantum, MaxClock)

SpecFade == Init /\ [][NextFade]_vars

\* C12: whenever the fade loop has stopped and no laser stroke is in progress,
\* neither the video overlay nor the notebook laser overlay shows laser ink.
C12_StoppedLoopShowsNoInk ==
    (/\ laserAnimationId = Null
     /\ currentLaserStroke = Null
     /\ currentInfiniteLaserStroke = Null)
        => /\ NoLaserInk(overlayCanvas)
           /\ infiniteLaserCanvas # Null => NoLaserInk(Val(infiniteLaserCanvas))


\* s is a prefix of t
IsPrefix(s, t) == Len(s) <= Len(t) /\ \A i \in 1..Len(s) : s[i] = t[i]

\* C14: the pointer-up that ends a laser stroke on the notebook (mouse up,
\* mouse out or touch end) leaves the stroke tracked by the fade animator, its
\* points in the order received, and no in-progress stroke record.
C14_PointerUpTracksStroke ==
    [][(/\ ev'.op = "nbStop"
        /\ infiniteDrawing
        /\ currentInfiniteLaserStroke # Null)
          => /\ currentInfiniteLaserStroke' = Null
             /\ Len(laserStrokes') = Len(laserStrokes) + 1
             /\ IsPrefix(Val(currentInfiniteLaserStroke).points,
                         laserStrokes'[Len(laserStrokes')].points)]_vars


\* ---------------------------------------------- the laser runs with saves
\* The laser is drawn on the one-pixel video overlay, one stroke at a time,
\* while the timestamp at time 0 is saved, in or out of drawing mode; a save
\* follows the deferred clear of the save before it.
NextLaserSave ==
    \/ ~player /\ LoadVideo
    \/ OpenDrawingMode
    \/ SelectTool("laser")
    \/ /\ drawingMode /\ currentTool = "laser" /\ laserStrokes = <<>>
       /\ Start(TRUE, 1, 1)
    \/ drawingMode /\ currentTool = "laser" /\ Draw(TRUE, 1, 1)
    \/ drawingMode /\ currentTool = "laser" /\ Stop("mouseup", 1, 1)
    \/ pendingClears = 0 /\ Save(0, TRUE)
    \/ DeferredClear
    \/ \E dt \in {2 * Quantum} : AnimateFrame(dt)
    \/ rafPending = 0 /\ ClockAdvance(2 * Quantum, MaxClock)

SpecLaserSave == Init /\ [][NextLaserSave]_vars

\* C13: laser ink is never on the persistent video surface and never in the
\* main-canvas data of the persisted blob.
C13_LaserInkNeverPersists ==
    /\ NoLaserInk(canvas)
    /\ localStorage # Null => NoLaserInk(Val(LoadData).mainCanvasData.url)

\* C15: a fade tick leaves the persistent video surface, the notebook surface
\* and the timestamp store as they were.
C15_TickTouchesTransientOnly ==
    [][ev'.op = "animate"
         => /\ canvas' = canvas
            /\ infiniteCanvas' = infiniteCanvas
            /\ timestampedDrawings' = timestampedDrawings]_vars

\* A frame has repainted a laser stroke on the overlay while the persistent
\* surface holds pixels and the store holds an entry
C15_Witness ==
    /\ ev.op = "animate"
    /\ ~IsBlank(overlayCanvas)
    /\ ~IsBlank(canvas)
    /\ timestampedDrawings # <<>>
    /\ \E i \in 1..Len(laserStrokes) : laserStrokes[i].opacity < FadeMs


\* ------------------------------------------------- the notebook size runs
\* The container is scrolled and the window resized.  A scroll event reports
\* the right and bottom edges of the viewport, which lie inside the surface.
WindowWidths == {100, 200}
WindowHeights == {80, 200}

ScrollStops == {70, 100, 150, 200, 300, 400}

ScrollEdges(extent) == {e \in ScrollStops : e <= extent}

NextSize ==
    \/ \E right \in ScrollEdges(infiniteCanvas.width),
          bottom \in ScrollEdges(infiniteCanvas.height) :
          CheckAndExpand(right, bottom)
    \/ \E sw \in WindowWidths, sh \in WindowHeights : HandleResize(sw, sh)
    \/ ToggleHorizontalExpansion

SpecSize == Init /\ [][NextSize]_vars

\* C16: no scroll event and no viewport-resize event decreases the width or
\* the height of the notebook surface.
C16_SizeNeverDecreases ==
    [][ev'.op \in {"scroll", "nbResize"}
         => /\ infiniteCanvas'.width >= infiniteCanvas.width
            /\ infiniteCanvas'.height >= infiniteCanvas.height]_vars

\* A scroll event with the viewport bottom within ExpandThreshold of the
\* surface bottom grows the height by exactly the page unit
GrowsByOneUnit ==
    [][(ev'.op = "scroll"
        /\ ev'.b > infiniteCanvas.height - ExpandThreshold)
          => infiniteCanvas'.height
                 = infiniteCanvas.height + CalculateA4Dimensions.height]_vars

\* C17 as stated: a checkAndExpand call with the viewport bottom within 100px
\* of the surface bottom grows the height from H to exactly H+U, and a further
\* call at the same scroll position does not grow it again.
C17_GrowsOnceAsStated ==
    /\ GrowsByOneUnit
    /\ [][(/\ ev.op = "scroll" /\ ev.k \in {"tall", "both"}
           /\ ev'.op = "scroll" /\ ev'.a = ev.a /\ ev'.b = ev.b)
             => infiniteCanvas'.height = infiniteCanvas.height]_vars

\* C17 amended: the height grows from H to exactly H+U, and a further call at
\* the same scroll position does not grow it again when the page unit U is at
\* least 100px and the viewport bottom does not lie below the old surface
\* bottom.
C17_GrowsOnce ==
    /\ GrowsByOneUnit
    /\ [][(/\ ev.op = "scroll" /\ ev.k \in {"tall", "both"}
           /\ ev'.op = "scroll" /\ ev'.a = ev.a /\ ev'.b = ev.b
           /\ CalculateA4Dimensions.height >= ExpandThreshold
           /\ ev.b <= infiniteCanvas.height - CalculateA4Dimensions.height)
             => infiniteCanvas'.height = infiniteCanvas.height]_vars

\* A scroll event at a position within 100px of the bottom the surface had one
\* page unit of at least 100px ago has found nothing to grow
C17_Witness ==
    /\ ev.op = "scroll"
    /\ ev.k = "same"
    /\ CalculateA4Dimensions.height >= ExpandThreshold
    /\ infiniteCanvas.height >= 2 * CalculateA4Dimensions.height
    /\ ev.b <= infiniteCanvas.height - CalculateA4Dimensions.height
    /\ ev.b > infiniteCanvas.height - CalculateA4Dimensions.height
                 - ExpandThreshold

\* C18: while horizontal growth is disabled no scroll event changes the width
\* of the notebook surface, a scroll event that grows the height included.
C18_WidthFixedWhileDisabled ==
    [][(ev'.op = "scroll" /\ ~infiniteHorizontal)
         => infiniteCanvas'.width = infiniteCanvas.width]_vars

\* With horizontal growth disabled, a scroll event whose right edge is within
\* 100px of the right border has grown the height only
C18_Witness ==
    /\ ev.op = "scroll"
    /\ ev.k = "tall"
    /\ ~infiniteHorizontal
    /\ ev.a > infiniteCanvas.width - ExpandThreshold


\* ---------------------------------------------- the notebook content runs
\* The pencil and the eraser are drawn along the boundary between the first
\* and the second page of a window of 200 x 200 px (y = 200), while the container is
\* scrolled, the window reports a resize and the notebook is cleared.
NbClientPoints == {<<51, 201>>, <<151, 201>>}

NbTools == {"pencil", "eraser"}

\* The client positions over the notebook surface
OverNotebook ==
    {p \in NbClientPoints :
        /\ Val(InfiniteGetMousePos(p[1], p[2]))[1] < infiniteCanvas.width
        /\ Val(InfiniteGetMousePos(p[1], p[2]))[2] < infiniteCanvas.height}

NextContent ==
    \/ \E tool \in NbTools : SelectTool(tool)
    \/ \E p \in OverNotebook : InfiniteStartDrawing("mousedown", p[1], p[2])
    \/ \E p \in OverNotebook : InfiniteDraw("mousemove", p[1], p[2])
    \/ \E kind \in StopKinds, p \in OverNotebook :
          InfiniteStopDrawing(kind, p[1], p[2])
    \/ \E bottom \in ScrollEdges(infiniteCanvas.height) :
          CheckAndExpand(70, bottom)
    \/ HandleResize(innerWidth, innerHeight)
    \/ InfiniteClear

SpecContent == Init /\ [][NextContent]_vars

\* Every boundary guide of the current page unit is intact
GuidesPresent ==
    GuideCells(infiniteCanvas, CalculateA4Dimensions) \subseteq infiniteCanvas.guides

\* C19: after a clear, an expansion, a viewport resize and every stroke ended
\* by pointer-up, eraser strokes included, a boundary guide is present at
\* every page-unit multiple inside the notebook surface.
C19_GuidesAfterMutation ==
    [][(\/ ev'.op = "nbClear"
        \/ ev'.op = "scroll" /\ ev'.k # "same"
        \/ ev'.op = "nbResize" /\ ev'.k = "resized"
        \/ ev'.op = "nbStop" /\ infiniteDrawing)
          => GuidesPresent']_vars


\* ------------------------------------------------------- the storage runs
\* The session of the storage runs: a stroke is pencilled on the overlay of a
\* page nothing else has happened on; the settings are changed one after the
\* other (colour, brush width, font size, font family, horizontal growth)
\* before a video is loaded; then a URL is typed, the video loaded, timestamps
\* saved; the page is reloaded at any moment, and the setItem of the unload
\* succeeds or fails.
Untouched ==
    /\ youtubeUrl = ""
    /\ localStorage = Null
    /\ currentColor = JsStr("#ff0000")

NextStorage ==
    \/ ~isDrawing /\ TypeUrl("https://youtu.be/v")
    \/ youtubeUrl # "" /\ ~player /\ LoadVideo
    \/ \E t \in ShowTimes : pendingClears = 0 /\ Save(t, TRUE)
    \/ DeferredClear
    \/ ~player /\ ~isDrawing /\ currentColor = JsStr("#ff0000")
          /\ SetColor("#00ff00")
    \/ ~player /\ currentColor # JsStr("#ff0000") /\ SetBrushSize("8")
    \/ ~player /\ brushSize = JsStr("8") /\ SetFontSize("32")
    \/ ~player /\ fontSize = JsStr("32") /\ SetFontFamily("Georgia")
    \/ ~player /\ fontFamily = JsStr("Georgia") /\ ~infiniteHorizontal
          /\ ToggleHorizontalExpansion
    \/ \E ok \in BOOLEAN : Reload(1, 1, ok)
    \/ RestoreCanvasDrawings
    \/ InfiniteImageLoaded
    \/ RestoredLoadVideo
    \/ \E k \in 1..MaxLoads : ImageLoaded(k)
    \/ Untouched /\ ~drawingMode /\ OpenDrawingMode
    \/ Untouched /\ drawingMode /\ ~isDrawing /\ Start(FALSE, 1, 1)
    \/ drawingMode /\ isDrawing /\ Draw(FALSE, 1, 1)
    \/ drawingMode /\ isDrawing /\ Stop("mouseup", 1, 1)

SpecStorage == Init /\ [][NextStorage]_vars

\* C20: a reload whose saveData() succeeded restores a timestamp store with
\* the same ids, times and snapshots in the same order, and the same colour,
\* brush width, font size, font family, horizontal-growth flag and page-unit
\* percentages as at save time.
C20_RestoreRoundTrip ==
    [][(ev'.op = "reload" /\ ev'.k = "saved")
         => /\ Len(timestampedDrawings') = Len(timestampedDrawings)
            /\ \A i \in 1..Len(timestampedDrawings) :
                  /\ timestampedDrawings'[i].id = timestampedDrawings[i].id
                  /\ timestampedDrawings'[i].time = timestampedDrawings[i].time
                  /\ timestampedDrawings'[i].drawingData
                         = timestampedDrawings[i].drawingData
            /\ currentColor' = currentColor
            /\ brushSize' = brushSize
            /\ fontSize' = fontSize
            /\ fontFamily' = fontFamily
            /\ infiniteHorizontal' = infiniteHorizontal
            /\ a4WidthPercent' = a4WidthPercent
            /\ a4HeightPercent' = a4HeightPercent]_vars

\* A reload has restored two entries, one of them with an inked snapshot, and
\* settings that had all been changed from their defaults
C20_Witness ==
    /\ ev.op = "reload"
    /\ ev.k = "saved"
    /\ Len(timestampedDrawings) = 2
    /\ \E i \in 1..2 : \E p \in DOMAIN timestampedDrawings[i].drawingData.px :
          timestampedDrawings[i].drawingData.px[p] = "ink"
    /\ currentColor = JsStr("#00ff00")
    /\ brushSize = JsStr("8")
    /\ fontSize = JsStr("32")
    /\ fontFamily = JsStr("Georgia")
    /\ infiniteHorizontal

\* ------------------------------------------------- the store: frame claims
\* C21: a save that coalesces onto an existing entry leaves the number of
\* entries unchanged, keeps that entry's id and time, replaces its snapshot by
\* the one of the persistent surface and its creation stamp by the current
\* one, and leaves every other entry unchanged.
C21_CoalescingSaveFrame ==
    [][(ev'.op = "save" /\ ev'.k = "updated")
         => /\ Len(timestampedDrawings') = Len(timestampedDrawings)
            /\ ev'.b \in 1..Len(timestampedDrawings)
            /\ \A j \in 1..Len(timestampedDrawings) :
                  IF j = ev'.b
                  THEN /\ timestampedDrawings'[j].id = timestampedDrawings[j].id
                       /\ timestampedDrawings'[j].time
                              = timestampedDrawings[j].time
                       /\ timestampedDrawings'[j].drawingData = ToDataURL(canvas)
                       /\ timestampedDrawings'[j].created = now
                  ELSE timestampedDrawings'[j] = timestampedDrawings[j]]_vars

\* A save at a time other than the entry's own has coalesced onto the second
\* of three entries, after the clock had advanced since that entry was created
C21_Witness ==
    /\ ev.op = "save"
    /\ ev.k = "updated"
    /\ Len(timestampedDrawings) = 3
    /\ ev.b = 2
    /\ timestampedDrawings[2].time # ev.a
    /\ timestampedDrawings[2].created # timestampedDrawings[2].id

\* C22: delete(id) removes exactly one entry, the one whose id is id, and
\* leaves every other entry in the store, in its place.
C22_DeleteRemovesOne ==
    [][ev'.op = "delete"
         => \E i \in 1..Len(timestampedDrawings) :
               /\ timestampedDrawings[i].id = ev'.a
               /\ timestampedDrawings'
                     = RemoveAt(timestampedDrawings, i)]_vars

\* The entries of S, each as often as it occurs
BagOf(S) == [e \in {S[i] : i \in 1..Len(S)} |->
                Cardinality({i \in 1..Len(S) : S[i] = e})]

\* The list presented holds the entries of the store, ascending by time
PresentedSorted ==
    /\ BagOf(timestampList) = BagOf(timestampedDrawings)
    /\ \A i, j \in 1..Len(timestampList) :
          i < j => timestampList[i].time <= timestampList[j].time

\* C23: the timestamp list presented to the UI holds the entries of the store
\* sorted ascending by time, whatever the order they were inserted in, and
\* building it leaves the store as the operation made it: a save keeps every
\* earlier entry at its index, a delete keeps the remaining entries in order.
C23_ListSortedStoreKept ==
    /\ []PresentedSorted
    /\ [][/\ ev'.op = "save"
             => \A i \in 1..Len(timestampedDrawings) :
                   /\ timestampedDrawings'[i].id = timestampedDrawings[i].id
                   /\ timestampedDrawings'[i].time = timestampedDrawings[i].time
          /\ ev'.op = "delete"
             => LET Kept(d) == d.id # ev'.a
                IN timestampedDrawings' = SelectSeq(timestampedDrawings, Kept)
         ]_vars

\* A save has inserted an entry earlier than the ones before it: the store of
\* three entries is not in ascending order and the list presented differs
C23_Witness ==
    /\ ev.op = "save"
    /\ ev.k = "created"
    /\ Len(timestampedDrawings) = 3
    /\ timestampedDrawings[1].time > timestampedDrawings[3].time
    /\ timestampList # timestampedDrawings
    /\ timestampList[1] = timestampedDrawings[3]

\* --------------------------------------------------- the runs without player
\* A URL is typed and the video loaded, a stroke is pencilled in drawing mode,
\* a timestamp is saved and its row of the list clicked; the page is reloaded,
\* and until the loadVideo timer of restoreData runs the restored entries are
\* presented while no player is set.
NextNoPlayer ==
    \/ ~isDrawing /\ youtubeUrl = "" /\ TypeUrl("https://youtu.be/v")
    \/ youtubeUrl # "" /\ ~player /\ LoadVideo
    \/ pendingClears = 0 /\ Save(0, TRUE)
    \/ DeferredClear
    \/ JumpTo(0)
    \/ Reload(1, 1, TRUE)
    \/ RestoreCanvasDrawings
    \/ InfiniteImageLoaded
    \/ RestoredLoadVideo
    \/ \E k \in 1..MaxLoads : ImageLoaded(k)
    \/ ~drawingMode /\ IsBlank(canvas) /\ OpenDrawingMode
    \/ drawingMode /\ ~isDrawing /\ IsBlank(canvas) /\ Start(FALSE, 1, 1)
    \/ drawingMode /\ isDrawing /\ Draw(FALSE, 1, 1)
    \/ drawingMode /\ isDrawing /\ Stop("mouseup", 1, 1)

SpecNoPlayer == Init /\ [][NextNoPlayer]_vars

\* C24: with no video player loaded, save and jumpTo leave the entry list,
\* both video surfaces, currentTimestamp, currentDrawingState and drawing mode
\* unchanged and write nothing to storage.
C24_NoPlayerAborts ==
    [][(ev'.op \in {"save", "jumpTo"} /\ ~player)
         => UNCHANGED <<timestampedDrawings, canvas, overlayCanvas,
                        currentTimestamp, currentDrawingState, drawingMode,
                        localStorage, pendingLoads, pendingClears>>]_vars

\* A row of the restored list was clicked while no player was set, the drawing
\* mode open and ink on the persistent surface
C24_Witness ==
    /\ ev.op = "jumpTo"
    /\ ~player
    /\ timestampedDrawings # <<>>
    /\ drawingMode
    /\ ~IsBlank(canvas)

\* ------------------------------------------------------- the player runs
\* A video is loaded; the player reports ready and its state changes in any
\* order; timestamps are saved and the poll shows them.
NextPlayer ==
    \/ LoadVideo
    \/ \E w \in 1..MaxW, h \in 1..MaxH : OnReady(w, h)
    \/ \E s \in PlayerStates : OnStateChange(s)
    \/ \E t \in ShowTimes : Save(t, TRUE)
    \/ DeferredClear
    \/ \E t \in ShowTimes : Tick(t)
    \/ \E k \in 1..MaxLoads : ImageLoaded(k)

SpecPlayer == Init /\ [][NextPlayer]_vars

\* C25: after any sequence of player-ready and state-change events at most one
\* interval timer is live, and it is the one timeUpdateInterval holds: every
\* start of a timer has cancelled the one started before.
C25_AtMostOneInterval ==
    /\ Cardinality(intervals) <= 1
    /\ \A i \in intervals : timeUpdateInterval = Some(i.id)

\* The player has reported PLAYING after onReady had started the display
\* timer: the poll is the one timer live
C25_Witness ==
    /\ ev.op = "stateChange"
    /\ ev.k = "playing"
    /\ playerReady
    /\ Cardinality(intervals) = 1
    /\ PollLive

\* C26: the 250ms timestamp poll is live whenever the player is in the playing
\* state and is not live whenever the player is paused or ended.
C26_PollTracksPlaying ==
    /\ playerState = "playing" => PollLive
    /\ playerState \in {"paused", "ended"} => ~PollLive

\* -------------------------------------------------------- the style runs
\* Strokes of the pencil and the eraser are drawn in drawing mode, a timestamp
\* is saved and its row of the list clicked, which repaints its snapshot.
StyleTools == {"pencil", "eraser", "rectangle"}

NextStyle ==
    \/ ~player /\ LoadVideo
    \/ pendingClears = 0 /\ Save(0, TRUE)
    \/ DeferredClear
    \/ JumpTo(0)
    \/ \E k \in 1..MaxLoads : ImageLoaded(k)
    \/ ~drawingMode /\ OpenDrawingMode
    \/ \E tool \in StyleTools : drawingMode /\ ~isDrawing /\ SelectTool(tool)
    \/ drawingMode /\ ~isDrawing /\ Start(FALSE, 1, 1)
    \/ drawingMode /\ isDrawing /\ Draw(FALSE, 1, 1)
    \/ drawingMode /\ isDrawing /\ Stop("mouseup", 1, 1)

SpecStyle == Init /\ [][NextStyle]_vars

\* C27: a paint on the persistent surface by a non-eraser operation is
\* composited source-over in the opaque style, whatever tool drew the stroke
\* before: the repaint of a snapshot leaves the snapshot's pixels on the
\* cleared surface, and a pencil segment or a committed shape turns every
\* pixel it changes into ink.
C27_NonEraserPaintsOpaque ==
    [][/\ (Len(pendingLoads') < Len(pendingLoads) /\ pendingLoads[1].valid)
             => canvas' = DrawImage(ClearRect(canvas), "source-over",
                                    pendingLoads[1])
       /\ (ev'.op \in {"draw", "stop"} /\ currentTool # "eraser")
             => \A p \in DOMAIN canvas.px :
                   canvas'.px[p] # canvas.px[p] => canvas'.px[p] = "ink"
      ]_vars

\* -------------------------------------------------------- the touch runs
\* Fingers touch the video overlay, in drawing mode, and the notebook; each
\* surface receives the touch events of the finger that began on it.
TouchTools == {"pencil", "rectangle"}

NextTouch ==
    \/ ~drawingMode /\ OpenDrawingMode
    \/ \E tool \in TouchTools : SelectTool(tool)
    \/ drawingMode /\ Start(TRUE, 1, 1)
    \/ drawingMode /\ Draw(TRUE, 1, 1)
    \/ drawingMode /\ Stop("touchend", 1, 1)
    \/ InfiniteStartDrawing("touchstart", NbClientPoint[1], NbClientPoint[2])
    \/ InfiniteDraw("touchmove", NbClientPoint[1], NbClientPoint[2])
    \/ InfiniteStopDrawing("touchend", NbClientPoint[1], NbClientPoint[2])

SpecTouch == Init /\ [][NextTouch]_vars

\* C28: at every instant at most one stroke is in progress across the video
\* surface and the notebook surface: isDrawing and infiniteDrawing are never
\* both true.
C28_OneStrokeAtATime == ~(isDrawing /\ infiniteDrawing)

\* C29: after every resize call, whatever non-negative sizes were requested
\* before, the persistent and the overlay video surfaces both have the newly
\* requested dimensions and the overlay is empty.
C29_ResizeSetsBothSurfaces ==
    [][ev'.op = "resize"
         => /\ canvas'.width = ev'.a
            /\ canvas'.height = ev'.b
            /\ overlayCanvas'.width = ev'.a
            /\ overlayCanvas'.height = ev'.b
            /\ IsBlank(overlayCanvas')]_vars

\* ------------------------------------------------------- the upload runs
\* Files are uploaded to the notebook; readers, decoders and page renders
\* complete in any order.
Files ==
    {File(kind, valid, numPages, bad) :
        kind \in FileKinds, valid \in BOOLEAN, numPages \in 1..MaxPages,
        bad \in 0..MaxPages} 

NextUpload ==
    \/ \E file \in Files, lib \in BOOLEAN :
          /\ file.bad <= file.numPages
          /\ file.kind # "pdf" => file.numPages = 1 /\ file.bad = 0
          /\ file.kind = "other" => file.valid
          /\ HandleFileUpload(file, lib)
    \/ \E j \in 1..MaxUploads, expands \in BOOLEAN : ImageLoad(j, expands)
    \/ \E j \in 1..MaxUploads : PdfLoad(j)
    \/ \E j \in 1..MaxUploads, expands \in BOOLEAN : RenderPage(j, expands)

SpecUpload == Init /\ [][NextUpload]_vars

\* C30: whenever an upload is reported to the user as failed, no MediaObject
\* was created by that upload.
C30_FailedUploadLeavesNoMedia ==
    (\E i \in 1..Len(notices.texts) : notices.texts[i] \in FailureNotices)
        => \A i \in 1..Len(mediaObjects) :
               mediaObjects[i].upload # notices.upload

C38_DeferredClearKeepsRepaint ==
    [][(/\ ev.op = "tick"
        /\ ev.k = "loaded"
        /\ ev.b # 0
        /\ ~IsBlank(canvas)
        /\ ev'.op = "deferredClear")
         => canvas' = canvas]_vars

\* ------------------------------------------------ the runs with racing loads
\* Ticks and jumps request snapshots while earlier image loads are still in
\* flight; the loads complete in any order.
NextRacing ==
    \/ ~player /\ LoadVideo
    \/ playerState # "playing" /\ OnStateChange("playing")
    \/ timestampedDrawings = <<>> /\ ~drawingMode /\ OpenDrawingMode
    \/ timestampedDrawings = <<>> /\ drawingMode /\ ~isDrawing
          /\ Start(FALSE, 1, 1)
    \/ drawingMode /\ isDrawing /\ Draw(FALSE, 1, 1)
    \/ drawingMode /\ isDrawing /\ Stop("mouseup", 1, 1)
    \/ \E t \in ShowTimes : pendingClears = 0 /\ Save(t, TRUE)
    \/ DeferredClear
    \/ \E t \in ShowTimes : TickWithin(t, MaxRacing)
    \/ \E t \in ShowTimes : JumpToWithin(t, MaxRacing)
    \/ \E k \in 1..MaxRacing : ImageLoaded(k)

SpecRacing == Init /\ [][NextRacing]_vars

\* C39: when several snapshot loads were requested in succession, the image
\* load that completes last leaves the persistent surface showing the snapshot
\* requested last (currentDrawingState names it), whatever order the loads
\* complete in.
C39_LastRequestShown ==
    [][(/\ Len(pendingLoads) = 1
        /\ pendingLoads' = <<>>
        /\ currentDrawingState # Null
        /\ currentDrawingState' = currentDrawingState)
         => canvas'.px = Val(currentDrawingState).px]_vars

\* ------------------------------------------------- the runs with failing writes
\* Snapshots are saved and the periodic and manual saves run while setItem
\* succeeds or throws.
NextPersist ==
    \/ ~player /\ LoadVideo
    \/ timestampedDrawings = <<>> /\ ~drawingMode /\ OpenDrawingMode
    \/ timestampedDrawings = <<>> /\ drawingMode /\ ~isDrawing
          /\ Start(FALSE, 1, 1)
    \/ drawingMode /\ isDrawing /\ Draw(FALSE, 1, 1)
    \/ drawingMode /\ isDrawing /\ Stop("mouseup", 1, 1)
    \/ \E t \in ShowTimes, ok \in BOOLEAN : pendingClears = 0 /\ Save(t, ok)
    \/ DeferredClear
    \/ \E ok \in BOOLEAN : PeriodicSave(ok)
    \/ \E ok \in BOOLEAN : ManualSave(ok)

SpecPersist == Init /\ [][NextPersist]_vars

StorageEdited(text) ==
    /\ localStorage' = Some(text)
    /\ ev' = Ev("storageEdited", 0, 0, "")
    /\ UNCHANGED <<nbVars, mediaVars, mhVars, callVars, setVars, playerVars,
                   storeVars, surfVars, drawVars, asyncVars, laserVars, now,
                   painted>>

\* The page is opened again after it went away without its beforeunload
\* listener running: init() runs loadData() and restoreData() on what is stored
Reopen(w, h) ==
    /\ \E loaded \in {LoadDataFrom(localStorage)} : Restart(w, h, loaded)
    /\ ev' = Ev("reopen", w, h, "")
    /\ UNCHANGED <<localStorage, now, innerWidth, innerHeight>>

\* A stored text with every member of saveData()'s data object, none of them
\* at the value a fresh page has
SampleInk == ToDataURL([NewBitmap(1, 1) EXCEPT !.px = [p \in DOMAIN @ |-> "ink"]])

SampleText ==
    << Member("videoUrl", StringifyValue(JsStr("https://youtu.be/v"))),
       Member("timestampedDrawings",
              Literal("array", "", <<>>, NoUrl,
                      <<StringifyEntry([id |-> 1, time |-> Sec,
                                        drawingData |-> SampleInk,
                                        created |-> 0])>>)),
       Member("mainCanvasData", StringifyValue(JsUrl(SampleInk))),
       Member("infiniteCanvasData",
              StringifyValue(JsUrl(NbToDataURL(NbBitmap(100, 100))))),
       Member("currentColor", StringifyValue(JsStr("#00ff00"))),
       Member("brushSize", StringifyValue(JsNum(8))),
       Member("fontSize", StringifyValue(JsNum(32))),
       Member("fontFamily", StringifyValue(JsStr("Georgia"))),
       Member("infiniteCanvasWidth", StringifyValue(JsNum(100))),
       Member("infiniteCanvasHeight", StringifyValue(JsNum(100))),
       Member("infiniteHorizontal", StringifyValue(JsBool(TRUE))),
       Member("a4WidthPercent", StringifyValue(JsNum(50))),
       Member("a4HeightPercent", StringifyValue(JsNum(50))),
       Member("lastSaved", Literal("string", "iso", Digits(0), NoUrl, <<>>)) >>

Keys(text) == {text[i].key : i \in 1..Len(text)}

\* The text without the members named in absent
Without(text, absent) == SelectSeq(text, LAMBDA mb : mb.key \notin absent)

\* The texts the page may find: the sample with up to MaxAbsent members
\* missing, and the sample broken off inside one of its members
PartialTexts ==
    {Without(SampleText, absent) :
        absent \in {A \in SUBSET Keys(SampleText) : Cardinality(A) <= MaxAbsent}}

CutTexts == {CutAt(SampleText, k) : k \in 1..Len(SampleText)}

NextForeign ==
    \/ \E text \in PartialTexts \cup CutTexts :
          localStorage = Null /\ StorageEdited(text)
    \/ ev.op # "reopen" /\ pendingRestores = <<>> /\ Reopen(1, 1)
    \/ RestoreCanvasDrawings
    \/ InfiniteImageLoaded
    \/ RestoredLoadVideo
    \/ \E k \in 1..MaxLoads : ImageLoaded(k)

SpecForeign == Init /\ [][NextForeign]_vars

\* C33: when the stored text is malformed JSON, loadData() returns null and
\* init() performs no restore: the page starts exactly as it does with nothing
\* stored, with an empty timestamp store, the default settings, blank surfaces
\* and no restore timer.
C33_MalformedBlobNotRestored ==
    [][(ev'.op = "reopen" /\ localStorage # Null
          /\ ~WellFormed(Val(localStorage)))
         => Restart(ev'.a, ev'.b, Null)]_vars

\* The page was opened on a text broken off after members that hold a video
\* URL, an entry and a colour
C33_Witness ==
    /\ ev.op = "reopen"
    /\ localStorage # Null
    /\ ~WellFormed(Val(localStorage))
    /\ {"videoUrl", "timestampedDrawings", "currentColor"}
           \subseteq Keys(Without(Val(localStorage),
                                  {Val(localStorage)[Len(Val(localStorage))].key}))
    /\ timestampedDrawings = <<>>
    /\ pendingRestores = <<>>

\* C34: restoreData() and restoreCanvasDrawings() on a text that lacks some of
\* the members leave what each absent member would have set as the fresh page
\* has it: no video URL and no loadVideo timer, an empty timestamp store, the
\* default colour, brush width, font, growth flag and page-unit percentages,
\* no image load for the main canvas, and the notebook surface and its size.
C34_AbsentFieldsKeepValue ==
    [][LET absent(key) == ~HasMember(Val(localStorage), key)
           reopened == ev'.op = "reopen" /\ localStorage # Null
                           /\ WellFormed(Val(localStorage))
           drawn == ev'.op = "restoreCanvasDrawings" /\ localStorage # Null
       IN /\ reopened =>
               /\ absent("videoUrl") =>
                     /\ youtubeUrl' = ""
                     /\ \A i \in 1..Len(pendingRestores') :
                           pendingRestores'[i].fn # "loadVideo"
               /\ absent("timestampedDrawings") =>
                     timestampedDrawings' = <<>> /\ timestampList' = <<>>
               /\ absent("currentColor") => currentColor' = JsStr("#ff0000")
               /\ absent("brushSize") => brushSize' = JsNum(DefaultBrushSize)
               /\ absent("fontSize") => fontSize' = JsNum(DefaultFontSize)
               /\ absent("fontFamily") => fontFamily' = JsStr("Arial")
               /\ absent("infiniteHorizontal") => infiniteHorizontal' = FALSE
               /\ absent("a4WidthPercent") =>
                     a4WidthPercent' = DefaultA4WidthPercent
               /\ absent("a4HeightPercent") =>
                     a4HeightPercent' = DefaultA4HeightPercent
               /\ Len(pendingRestores') >= 1
          /\ drawn =>
               /\ absent("mainCanvasData") => pendingLoads' = pendingLoads
               /\ absent("infiniteCanvasData") =>
                     /\ infiniteCanvas' = infiniteCanvas
                     /\ pendingRestores' = Tail(pendingRestores)
               /\ (absent("infiniteCanvasWidth")
                     \/ absent("infiniteCanvasHeight")) =>
                     /\ infiniteCanvas'.width = infiniteCanvas.width
                     /\ infiniteCanvas'.height = infiniteCanvas.height]_vars

\* restoreCanvasDrawings() has run on a text without the main canvas
\* and the colour, whose brush width and notebook snapshot were restored
C34_Witness ==
    /\ ev.op = "restoreCanvasDrawings"
    /\ localStorage # Null
    /\ ~HasMember(Val(localStorage), "mainCanvasData")
    /\ ~HasMember(Val(localStorage), "currentColor")
    /\ HasMember(Val(localStorage), "infiniteCanvasData")
    /\ currentColor = JsStr("#ff0000")
    /\ brushSize = JsNum(8)
    /\ pendingLoads = <<>>
    /\ pendingRestores # <<>>

\* ------------------------------------------- the loops of drawPageSeparators
\* onload of the image restoreCanvasDrawings() creates for the notebook, up to
\* the first loop of drawPageSeparators(): let y = dimensions.height
InfiniteImageOnload ==
    LET img == Head(pendingRestores).data.infiniteCanvasData.url
    IN /\ separatorLoop = Null
       /\ pendingRestores # <<>>
       /\ Head(pendingRestores).fn = "infiniteImage"
       /\ pendingRestores' = Tail(pendingRestores)
       /\ infiniteCanvas' =
              NbDrawImage(NbClearRect(infiniteCanvas), infiniteCtx.gco, img)
       /\ separatorLoop' =
              Some([axis |-> "y", at |-> CalculateA4Dimensions.height])
       /\ ev' = Ev("infiniteImageOnload", 0, 0, "")
       /\ UNCHANGED <<setVars, mediaVars, mhVars, saveReturned, playerVars,
                      storeVars, surfVars, drawVars, asyncVars, laserVars,
                      localStorage, now, painted, infiniteCtx, infiniteDrawing,
                      currentInfiniteLaserStroke, infiniteLaserCanvas,
                      infiniteLaserCtx, innerWidth, innerHeight>>

\* One test of a loop condition of drawPageSeparators() with what follows it:
\* the stroke of a line and y += dimensions.height (x += dimensions.width), or
\* the exit to the second loop or to ctx.restore()
SeparatorStep ==
    LET lp == Val(separatorLoop)
        dims == CalculateA4Dimensions
        c == infiniteCanvas
        row == {p \in DOMAIN c.px : p[2] = lp.at \div Cell}
        col == {p \in DOMAIN c.px : p[1] = lp.at \div Cell}
    IN /\ separatorLoop # Null
       /\ CASE lp.axis = "y" /\ lp.at < c.height ->
                 /\ infiniteCanvas' = [c EXCEPT !.guides = @ \cup row]
                 /\ infiniteCtx' = [infiniteCtx EXCEPT
                                       !.path = row,
                                       !.pen = Some(<<c.width, lp.at>>)]
                 /\ separatorLoop' = Some([lp EXCEPT !.at = @ + dims.height])
            [] lp.axis = "y" /\ lp.at >= c.height ->
                 /\ separatorLoop' = Some([axis |-> "x", at |-> dims.width])
                 /\ UNCHANGED <<infiniteCanvas, infiniteCtx>>
            [] lp.axis = "x" /\ lp.at < c.width ->
                 /\ infiniteCanvas' = [c EXCEPT !.guides = @ \cup col]
                 /\ infiniteCtx' = [infiniteCtx EXCEPT
                                       !.path = col,
                                       !.pen = Some(<<lp.at, c.height>>)]
                 /\ separatorLoop' = Some([lp EXCEPT !.at = @ + dims.width])
            [] OTHER ->
                 /\ separatorLoop' = Null
                 /\ UNCHANGED <<infiniteCanvas, infiniteCtx>>
       /\ ev' = Ev("drawPageSeparators", 0, 0,
                   IF separatorLoop' = Null THEN "returned" ELSE "looping")
       /\ UNCHANGED <<setVars, mediaVars, mhVars, saveReturned, playerVars,
                      storeVars, surfVars, drawVars, asyncVars, laserVars,
                      localStorage, now, painted, infiniteDrawing,
                      currentInfiniteLaserStroke, infiniteLaserCanvas,
                      infiniteLaserCtx, innerWidth, innerHeight,
                      pendingRestores>>

\* Page-unit percentages a stored text may hold: restoreData() takes every
\* truthy value
StoredPercents == {1, 50}

\* The sample text of a notebook, with the percentages wp and hp
PercentText(wp, hp) ==
    LET base == Without(SampleText, {"videoUrl", "timestampedDrawings",
                                     "mainCanvasData"})
    IN [i \in 1..Len(base) |->
          CASE base[i].key = "a4WidthPercent" ->
                  Member("a4WidthPercent", StringifyValue(JsNum(wp)))
            [] base[i].key = "a4HeightPercent" ->
                  Member("a4HeightPercent", StringifyValue(JsNum(hp)))
            [] OTHER -> base[i]]

\* The script runs to completion: nothing else happens while the loops run
NextSeparators ==
    \/ \E sw \in WindowWidths, sh \in WindowHeights :
          separatorLoop = Null /\ localStorage = Null /\ HandleResize(sw, sh)
    \/ \E wp \in StoredPercents, hp \in StoredPercents :
          separatorLoop = Null /\ localStorage = Null
              /\ StorageEdited(PercentText(wp, hp))
    \/ separatorLoop = Null /\ ev.op # "reopen" /\ pendingRestores = <<>>
          /\ Reopen(1, 1)
    \/ separatorLoop = Null /\ RestoreCanvasDrawings
    \/ InfiniteImageOnload
    \/ SeparatorStep

\* The engine keeps running the script it has started
SpecSeparators ==
    Init /\ [][NextSeparators]_vars /\ WF_vars(SeparatorStep)

\* C40: every call of drawPageSeparators() returns, whatever the viewport and
\* the page-unit percentages restoreData() has taken from the stored text.
C40_SeparatorsReturn == (separatorLoop # Null) ~> (separatorLoop = Null)

\* ------------------------------------------------- the events of MediaHandler
\* A pointer event carries its client point p; target is the media object the
\* event lands on, Null when it lands on no media element.  The touches of a
\* two-finger event lie span px apart on a horizontal line, where
\* Math.sqrt(dx^2 + dy^2) is span.
SizeOf(id) ==
    [width |-> mediaObjects[MediaIndex(id)].width,
     height |-> mediaObjects[MediaIndex(id)].height]

\* resizeFrom once startResize (by "mouse") or startPinchResize (by "pinch")
\* has run on the object id
Started(by, id) ==
    {r \in resizeFrom : r.by # by}
        \cup {[by |-> by, id |-> id, width |-> SizeOf(id).width]}

\* what the media handlers leave alone
mhFrame == <<nbVars, setVars, playerVars, storeVars, surfVars, drawVars,
             asyncVars, laserVars, callVars, localStorage, now, painted,
             currentPDF, totalPages, uploads, uploadCount, notices>>

\* handleMouseDown(e), the mousedown listener of the document
HandleMouseDown(target, p) ==
    /\ ev' = Ev("mouseDown", p[1], p[2],
                IF currentTool # "select" THEN "ignored"
                ELSE IF target = Null THEN "deselected" ELSE "selected")
    /\ IF currentTool # "select"
       THEN UNCHANGED mhVars
       ELSE IF target = Null
       THEN /\ selectedMedia' = Null
            /\ UNCHANGED <<isDragging, isResizing, dragStartPos, resizeStartPos,
                           resizeStartSize, initialPinchDistance, initialSize,
                           resizeFrom>>
       ELSE /\ selectedMedia' = target
            /\ isDragging' = TRUE
            /\ dragStartPos' = Some(p)
            /\ UNCHANGED <<isResizing, resizeStartPos, resizeStartSize,
                           initialPinchDistance, initialSize, resizeFrom>>
    /\ UNCHANGED <<mediaObjects, mhFrame>>

\* The mousedown listener of a resize handle: stopPropagation() keeps the
\* event from the document, then startResize(e, mediaObj).  The handles on the
\* page are those of the selected object.
ResizeHandleMouseDown(p) ==
    /\ selectedMedia # Null
    /\ isResizing' = TRUE
    /\ resizeStartPos' = Some(p)
    /\ resizeStartSize' = Some(SizeOf(Val(selectedMedia)))
    /\ resizeFrom' = Started("mouse", Val(selectedMedia))
    /\ ev' = Ev("handleMouseDown", p[1], p[2], "startResize")
    /\ UNCHANGED <<selectedMedia, isDragging, dragStartPos,
                   initialPinchDistance, initialSize, mediaObjects, mhFrame>>

\* handleMouseMove(e): updateDrag(e) or updateResize(e); op names the listener
\* that called it
MouseMoved(op, p) ==
    LET dragging == isDragging /\ selectedMedia # Null
        resizing == ~dragging /\ isResizing /\ selectedMedia # Null
                        /\ resizeStartPos # Null
        deltaX == p[1] - Val(resizeStartPos)[1]
        deltaY == p[2] - Val(resizeStartPos)[2]
        scaleFactor == Rat(ResizeSpan + deltaX + deltaY, ResizeSpan)
    IN /\ dragStartPos' = IF dragging /\ dragStartPos # Null THEN Some(p)
                          ELSE dragStartPos
       /\ mediaObjects' =
              IF resizing
              THEN Resized(Val(resizeStartSize).width, scaleFactor)
              ELSE mediaObjects
       /\ ev' = IF resizing
                THEN Ev(op, scaleFactor[1], scaleFactor[2], "resized")
                ELSE Ev(op, p[1], p[2], IF dragging THEN "dragged" ELSE "")
       /\ UNCHANGED <<selectedMedia, isDragging, isResizing, resizeStartPos,
                      resizeStartSize, initialPinchDistance, initialSize,
                      resizeFrom, mhFrame>>

HandleMouseMove(p) == MouseMoved("mouseMove", p)

\* handleMouseUp(e): endDrag(), else endResize(); op names the listener that
\* called it
MouseReleased(op) ==
    /\ IF isDragging
       THEN /\ isDragging' = FALSE
            /\ dragStartPos' = Null
            /\ UNCHANGED <<isResizing, resizeStartPos, resizeStartSize,
                           resizeFrom>>
       ELSE IF isResizing
       THEN /\ isResizing' = FALSE
            /\ resizeStartPos' = Null
            /\ resizeStartSize' = Null
            /\ resizeFrom' = {}
            /\ UNCHANGED <<isDragging, dragStartPos>>
       ELSE UNCHANGED <<isDragging, dragStartPos, isResizing, resizeStartPos,
                        resizeStartSize, resizeFrom>>
    /\ ev' = Ev(op, 0, 0, IF isDragging THEN "endDrag"
                          ELSE IF isResizing THEN "endResize" ELSE "")
    /\ UNCHANGED <<selectedMedia, initialPinchDistance, initialSize,
                   mediaObjects, mhFrame>>

HandleMouseUp == MouseReleased("mouseUp")

\* handleTouchStart(e).  With one touch it hands handleMouseDown a MouseEvent
\* that was never dispatched: its target is null, and e.target.classList
\* throws once the tool test has passed.  With two touches on a media element
\* it runs startPinchResize(e, mediaObj).
HandleTouchStart(touches, target, span) ==
    /\ IF touches = 2 /\ target # Null
       THEN /\ isResizing' = TRUE
            /\ selectedMedia' = target
            /\ initialPinchDistance' = Some(span)
            /\ initialSize' = Some(SizeOf(Val(target)))
            /\ resizeFrom' = Started("pinch", Val(target))
            /\ UNCHANGED <<isDragging, dragStartPos, resizeStartPos,
                           resizeStartSize>>
       ELSE UNCHANGED mhVars
    /\ ev' = Ev("touchStart", touches, span,
                IF touches = 2
                THEN (IF target # Null THEN "startPinchResize" ELSE "")
                ELSE IF currentTool = "select" THEN "threw" ELSE "ignored")
    /\ UNCHANGED <<mediaObjects, mhFrame>>

\* updatePinchResize(e), run by handleTouchMove(e) for two touches while
\* isResizing
PinchMoved(span) ==
    LET resizing == /\ selectedMedia # Null
                    /\ initialPinchDistance # Null
                    /\ Val(initialPinchDistance) # 0
        scaleFactor == Rat(span, Val(initialPinchDistance))
    IN /\ mediaObjects' =
              IF resizing THEN Resized(Val(initialSize).width, scaleFactor)
              ELSE mediaObjects
       /\ ev' = IF resizing
                THEN Ev("touchMove", scaleFactor[1], scaleFactor[2], "resized")
                ELSE Ev("touchMove", 2, span, "")
       /\ UNCHANGED <<mhVars, mhFrame>>

\* handleTouchMove(e)
HandleTouchMove(touches, p, span) ==
    IF touches = 1 /\ isDragging THEN MouseMoved("touchMove", p)
    ELSE IF touches = 2 /\ isResizing THEN PinchMoved(span)
    ELSE /\ ev' = Ev("touchMove", touches, 0, "")
         /\ UNCHANGED <<mediaObjects, mhVars, mhFrame>>

\* handleTouchEnd(e) with the touches still down
HandleTouchEnd(touches) ==
    IF touches = 0 THEN MouseReleased("touchEnd")
    ELSE /\ ev' = Ev("touchEnd", touches, 0, "")
         /\ UNCHANGED <<mediaObjects, mhVars, mhFrame>>

\* removeMedia(mediaId) that leaves the selection alone
RemoveMediaKeepingSelection(id) ==
    /\ mediaObjects' = IF id \in MediaIds
                       THEN RemoveAt(mediaObjects, MediaIndex(id))
                       ELSE mediaObjects
    /\ ev' = Ev("removeMedia", id[1], id[2],
                IF selectedMedia = Some(id) THEN "wasSelected" ELSE "")
    /\ UNCHANGED <<mhVars, mhFrame>>

\* removeMedia(mediaId)
RemoveMedia(id) ==
    /\ mediaObjects' = IF id \in MediaIds
                       THEN RemoveAt(mediaObjects, MediaIndex(id))
                       ELSE mediaObjects
    /\ selectedMedia' = IF id \in MediaIds /\ selectedMedia = Some(id) THEN Null
                        ELSE selectedMedia
    /\ ev' = Ev("removeMedia", id[1], id[2],
                IF selectedMedia = Some(id) THEN "wasSelected" ELSE "")
    /\ UNCHANGED <<isDragging, isResizing, dragStartPos, resizeStartPos,
                   resizeStartSize, initialPinchDistance, initialSize,
                   resizeFrom, mhFrame>>

\* clearAll()
ClearAll ==
    /\ mediaObjects' = <<>>
    /\ selectedMedia' = Null
    /\ ev' = Ev("clearAll", 0, 0, "")
    /\ UNCHANGED <<isDragging, isResizing, dragStartPos, resizeStartPos,
                   resizeStartSize, initialPinchDistance, initialSize,
                   resizeFrom, mhFrame>>

\* click on clearStorage, the "clear all data" button; confirmed is the answer
\* to confirm()
ClearStorage(confirmed) ==
    /\ ev' = Ev("clearStorage", 0, 0, IF confirmed THEN "cleared" ELSE "kept")
    /\ IF confirmed
       THEN /\ canvas' = ClearRect(canvas)
            /\ overlayCanvas' = ClearRect(overlayCanvas)
            /\ infiniteCanvas' = DrawPageSeparators(NbClearRect(infiniteCanvas),
                                                    CalculateA4Dimensions)
            /\ infiniteCtx' = SeparatorCtx(infiniteCtx, infiniteCanvas,
                                           CalculateA4Dimensions)
            /\ isDrawing' = FALSE
            /\ drawingMode' = FALSE
            /\ infiniteDrawing' = FALSE
            /\ startX' = 0
            /\ startY' = 0
            /\ timestampedDrawings' = <<>>
            /\ currentTimestamp' = Null
            /\ currentDrawingState' = Null
            /\ timestampList' = UpdateUI(<<>>)
            /\ currentPDF' = Null
            /\ totalPages' = 1
            /\ localStorage' = Null
       ELSE UNCHANGED <<canvas, overlayCanvas, infiniteCanvas, infiniteCtx,
                        isDrawing, drawingMode, infiniteDrawing, startX, startY,
                        storeVars, currentPDF, totalPages, localStorage>>
    /\ UNCHANGED <<mediaObjects, uploads, uploadCount, notices, mhVars,
                   callVars, setVars, playerVars, ctx, overlayCtx, currentTool,
                   asyncVars, laserVars, now, painted,
                   currentInfiniteLaserStroke, infiniteLaserCanvas,
                   infiniteLaserCtx, innerWidth, innerHeight, pendingRestores>>

\* ------------------------------------------------------------ the media runs
\* Two images are uploaded and then selected with the mouse or with two
\* fingers, removed and cleared.  The pointer goes down at GrabPoint and the
\* fingers come down StartSpans px apart.
GrabPoint == <<100, 0>>
StartSpans == {200}
Targets == {Null} \cup {Some(id) : id \in MediaIds}

NextSelection ==
    \/ HandleFileUpload(File("image", TRUE, 0, 0), TRUE)
    \/ \E j \in 1..MaxUploads : ImageLoad(j, FALSE)
    \/ currentTool # "select" /\ SelectTool("select")
    \/ \E target \in Targets : HandleMouseDown(target, GrabPoint)
    \/ HandleMouseUp
    \/ \E touches \in 1..2, target \in Targets, span \in StartSpans :
          HandleTouchStart(touches, target, span)
    \/ \E touches \in 0..1 : HandleTouchEnd(touches)
    \/ \E id \in MediaIds : RemoveMedia(id)
    \/ ClearAll
    \/ \E confirmed \in BOOLEAN : ClearStorage(confirmed)

SpecSelection == Init /\ [][NextSelection]_vars

\* ----------------------------------------------------------- the resize runs
\* The images are resized with the mouse and with two fingers.  A resize
\* starts on an object at most MaxStartWidth px wide; the pointer moves to the
\* points of MovePoints and the fingers to the distances of PinchSpans, which
\* halve and double the width.
MovePoints == {<<0, 0>>, <<300, 0>>}
PinchSpans == {100, 400}

Startable(id) == SizeOf(id).width[1] <= MaxStartWidth * SizeOf(id).width[2]

NextMediaResize ==
    \/ HandleFileUpload(File("image", TRUE, 0, 0), TRUE)
    \/ \E j \in 1..MaxUploads : ImageLoad(j, FALSE)
    \/ currentTool # "select" /\ SelectTool("select")
    \/ \E target \in Targets : HandleMouseDown(target, GrabPoint)
    \/ /\ selectedMedia # Null
       /\ Startable(Val(selectedMedia))
       /\ ResizeHandleMouseDown(GrabPoint)
    \/ \E p \in MovePoints : HandleMouseMove(p)
    \/ HandleMouseUp
    \/ \E target \in Targets, span \in StartSpans :
          /\ target # Null => Startable(Val(target))
          /\ HandleTouchStart(2, target, span)
    \/ \E span \in PinchSpans : HandleTouchMove(2, GrabPoint, span)
    \/ HandleTouchEnd(0)

SpecMediaResize == Init /\ [][NextMediaResize]_vars

\* C35: after every resize tick of the mouse or of two fingers, the selected
\* object is the one whose resize the mouse or the fingers started, its width
\* is max(50, startWidth * scale) for the width it had when that resize
\* started, which is at least 50 px, and its height is its width divided by
\* its aspect ratio.
C35_ResizeFromStartWidth ==
    (ev.k = "resized") =>
        LET obj == mediaObjects[MediaIndex(Val(selectedMedia))]
            scaleFactor == <<ev.a, ev.b>>
            by == IF ev.op = "mouseMove" THEN "mouse" ELSE "pinch"
        IN /\ \E r \in resizeFrom :
                 /\ r.by = by
                 /\ r.id = Val(selectedMedia)
                 /\ obj.width = RatMax(Rat(MinMediaWidth, 1),
                                       RatTimes(r.width, scaleFactor))
           /\ obj.width[1] >= MinMediaWidth * obj.width[2]
           /\ obj.height = RatOver(obj.width, obj.aspectRatio)

\* C36: selectedMedia names at most one object, and that object is among
\* mediaObjects; after a mousedown or a two-finger touchstart on an object
\* that object alone is selected; after removeMedia() of the selected object
\* and after clearAll() nothing is selected.
C36_OneSelectedAndPlaced ==
    /\ [](/\ Len(selectedMedia) <= 1
          /\ selectedMedia # Null => Val(selectedMedia) \in MediaIds
          /\ \A i, j \in 1..Len(mediaObjects) :
                MediaId(mediaObjects[i]) = MediaId(mediaObjects[j]) => i = j)
    /\ [][/\ ev'.k \in {"selected", "startPinchResize"} =>
               /\ selectedMedia' # Null
               /\ Val(selectedMedia') \in MediaIds
          /\ (ev'.op = "removeMedia" /\ ev'.k = "wasSelected") =>
               /\ selectedMedia' = Null
               /\ Len(mediaObjects') = Len(mediaObjects) - 1
          /\ ev'.op = "clearAll" =>
               selectedMedia' = Null /\ mediaObjects' = <<>>]_vars

\* The selected one of two objects has been removed: the other one stays and
\* nothing is selected
C36_Witness ==
    /\ ev.op = "removeMedia"
    /\ ev.k = "wasSelected"
    /\ Len(mediaObjects) = 1
    /\ selectedMedia = Null

\* C31: once the "clear all data" button has been confirmed and its handler
\* has run, mediaObjects is empty and nothing is selected.
C31_ClearLeavesNoMedia ==
    (ev.op = "clearStorage" /\ ev.k = "cleared")
        => (mediaObjects = <<>> /\ selectedMedia = Null)

====
